---------------------------- MODULE Spec2Model ----------------------------
(***************************************************************************)
(* Model of the sales-analytics pipeline: parse_transactions and           *)
(* validate_and_filter (utils/file_handler.py), the seven analysis         *)
(* functions of utils/data_processor.py, and enrich_sales_data             *)
(* (utils/api_handler.py).                                                 *)
(*                                                                         *)
(* Conventions.  A Python str is a sequence of one-character strings, so   *)
(* that split, strip, replace and startswith are computed character by     *)
(* character.  A Python float is a record [nan, v, ulps]: either NaN or    *)
(* the binary64 number v + ulps * 2^-53, with v a whole number and ulps a  *)
(* small count of units of 2^-53 (half the spacing of the doubles next to  *)
(* 1.0).  Sums and products are rounded to the nearest double, ties to the *)
(* even significand, as IEEE 754 does.  An optional argument is <<>>       *)
(* (None) or <<x>> (the value x).                                          *)
(***************************************************************************)
EXTENDS Integers, Sequences, FiniteSets, TLC

VARIABLES
    raw_lines,           \* parse_transactions: the argument
    transactions,        \* the parsed records (parse result / validator argument)
    pc,                  \* position in the pipeline
    region,              \* validate_and_filter: argument region
    min_amount,          \* validate_and_filter: argument min_amount
    max_amount,          \* validate_and_filter: argument max_amount
    valid_transactions,  \* validate_and_filter: returned list
    invalid_count,       \* validate_and_filter: returned invalid count
    filter_summary,      \* validate_and_filter: returned summary dict
    sorted_result,       \* region_wise_sales: returned dict, in iteration order
    total_revenue,       \* calculate_total_revenue: returned float
    top_products,        \* top_selling_products: returned list
    top_n,               \* top_selling_products: argument n
    customer_data,       \* customer_analysis: returned dict, in iteration order
    daily_data,          \* daily_sales_trend: returned dict, in iteration order
    peak_day,            \* find_peak_sales_day: returned tuple
    low_products,        \* low_performing_products: returned list
    low_threshold,       \* low_performing_products: argument threshold
    called,              \* the analysis functions that have returned
    product_mapping,     \* enrich_sales_data: argument product_mapping
    enriched_transactions, \* enrich_sales_data: returned list
    raised,              \* the exception that left the last call, or "none"
    call_log,            \* main: the calls made so far, each with its records
    api_products,        \* fetch_all_products: returned list
    fetch_status,        \* fetch_all_products: the status message it printed
    saved_file           \* save_enriched_data: the lines of the file it wrote

\* what the analysis functions of data_processor.py return
analysis_vars == << total_revenue, top_products, top_n, customer_data,
                    daily_data, peak_day, low_products, low_threshold, called >>

\* the mapping and the result of enrich_sales_data
enrich_vars == << product_mapping, enriched_transactions >>

\* how the last call ended, what main has called and what the API gave
run_vars == << raised, call_log, api_products, fetch_status, saved_file >>

vars == << raw_lines, transactions, pc, region, min_amount, max_amount,
           valid_transactions, invalid_count, filter_summary, sorted_result,
           analysis_vars, enrich_vars, run_vars >>

(***************************************************************************)
(* Bounds of the model.                                                    *)
(***************************************************************************)
MaxLen == 3          \* longest record sequence given to validate_and_filter
MaxLines == 2        \* longest raw_lines given to parse_transactions
MaxSales == 5        \* longest record sequence given to region_wise_sales

(***************************************************************************)
(* Python values.                                                          *)
(***************************************************************************)
None == << >>
Some(x) == << x >>

F(n) == [nan |-> FALSE, v |-> n, ulps |-> 0]
NaN == [nan |-> TRUE, v |-> 0, ulps |-> 0]

\* the double k * 2^-53 (exact for 0 <= k < 2^53)
Ulps(k) == [nan |-> FALSE, v |-> 0, ulps |-> k]

\* spacing of the doubles around the whole number v, in units of 2^-53:
\* 1 below 1.0, 2 in [1, 2), 4 in [2, 4), 8 in [4, 8), ...
RECURSIVE Spacing(_)
Spacing(v) == IF v = 0 THEN 1 ELSE 2 * Spacing(v \div 2)

\* the double nearest to v + k * 2^-53, ties to the even significand
\* (whole numbers of this size are exact)
RoundToDouble(v, k) ==
    IF k = 0
    THEN F(v)
    ELSE LET g == Spacing(v)
             q == k \div g
             r == k % g
             up == \/ 2 * r > g
                   \/ 2 * r = g /\ q % 2 = 1
         IN  [nan |-> FALSE, v |-> v, ulps |-> g * (IF up THEN q + 1 ELSE q)]

\* float comparisons: every comparison with NaN is False
FLt(a, b) == ~a.nan /\ ~b.nan /\ (a.v < b.v \/ (a.v = b.v /\ a.ulps < b.ulps))
FLe(a, b) == ~a.nan /\ ~b.nan /\ (a.v < b.v \/ (a.v = b.v /\ a.ulps <= b.ulps))
FGt(a, b) == FLt(b, a)
FGe(a, b) == FLe(b, a)

\* int * float
FMul(q, p) == IF p.nan THEN NaN ELSE RoundToDouble(q * p.v, q * p.ulps)

\* float + float
FAdd(a, b) ==
    IF a.nan \/ b.nan THEN NaN ELSE RoundToDouble(a.v + b.v, a.ulps + b.ulps)

\* truth value of an optional float argument: None and 0.0 are falsy
TruthyNum(o) == o # None /\ (o[1].nan \/ o[1].v # 0 \/ o[1].ulps # 0)

\* truth value of an optional str argument: None and "" are falsy
TruthyStr(o) == o # None /\ o[1] # << >>

\* str.startswith(prefix)
StartsWith(s, prefix) ==
    /\ Len(s) >= Len(prefix)
    /\ SubSeq(s, 1, Len(prefix)) = prefix

(***************************************************************************)
(* validate_and_filter                                                     *)
(***************************************************************************)

\* Python's ints have no width.  The model keeps an int of up to nine digits
\* as itself and every int of 310 digits or more, which is above the largest
\* float (1.8e308), as TooLarge; the only things done with such an int are
\* the sign test and the conversion to float, which raises OverflowError
TooLarge == 2147483647

\* Quantity * UnitPrice of a record
Amount(t) == FMul(t.Quantity, t.UnitPrice)

\* the exception of Quantity * UnitPrice: the int is converted to float
\* before the multiplication
AmountRaises(t) ==
    IF t.Quantity >= TooLarge \/ t.Quantity <= 0 - TooLarge
    THEN "OverflowError" ELSE "none"

\* the six checks of the validation loop, in order; TRUE when one of them
\* takes the "invalid_count += 1; continue" branch
FailsValidation(t) ==
    \/ t.Quantity <= 0
    \/ FLe(t.UnitPrice, F(0))
    \/ ~StartsWith(t.TransactionID, <<"T">>)
    \/ ~StartsWith(t.ProductID, <<"P">>)
    \/ ~StartsWith(t.CustomerID, <<"C">>)
    \/ (t.CustomerID = << >> \/ t.Region = << >>)

\* mutant of ValidationPass: the UnitPrice branch lacks "invalid_count += 1"
RECURSIVE ValidationPassUncounted(_, _, _, _)
ValidationPassUncounted(ts, i, valid, invalid) ==
    IF i > Len(ts) THEN [valid |-> valid, invalid |-> invalid]
    ELSE IF ts[i].Quantity <= 0
         THEN ValidationPassUncounted(ts, i + 1, valid, invalid + 1)
         ELSE IF FailsValidation(ts[i])
              THEN ValidationPassUncounted(ts, i + 1, valid,
                       IF FLe(ts[i].UnitPrice, F(0)) THEN invalid ELSE invalid + 1)
              ELSE ValidationPassUncounted(ts, i + 1, Append(valid, ts[i]), invalid)

\* the validation loop: [valid |-> list, invalid |-> count] after the
\* records from index i on have been visited
RECURSIVE ValidationPass(_, _, _, _)
ValidationPass(ts, i, valid, invalid) ==
    IF i > Len(ts) THEN [valid |-> valid, invalid |-> invalid]
    ELSE IF FailsValidation(ts[i])
         THEN ValidationPass(ts, i + 1, valid, invalid + 1)
         ELSE ValidationPass(ts, i + 1, Append(valid, ts[i]), invalid)

\* str.lower() on the letters of the region names
LowerChar(c) == CASE c = "N" -> "n" [] c = "S" -> "s" [] OTHER -> c
Lower(s) == [ i \in 1..Len(s) |-> LowerChar(s[i]) ]

\* mutant of RegionMatches: the comparison ignores case
RegionMatchesIgnoringCase(t, r) == Lower(t.Region) = Lower(r)

\* the comparison of the region filter's list comprehension
RegionMatches(t, r) == t.Region = r

\* the region stage: the list comprehension when region is truthy
RegionStage(valid, r) ==
    IF TruthyStr(r)
    THEN SelectSeq(valid, LAMBDA t : RegionMatches(t, r[1]))
    ELSE valid

\* the two "continue" conditions of the amount loop
SkippedByAmount(t, mn, mx) ==
    \/ (TruthyNum(mn) /\ FLt(Amount(t), mn[1]))
    \/ (TruthyNum(mx) /\ FGt(Amount(t), mx[1]))

\* the amount stage: the loop when min_amount or max_amount is truthy
AmountStage(valid, mn, mx) ==
    IF TruthyNum(mn) \/ TruthyNum(mx)
    THEN SelectSeq(valid, LAMBDA t : ~SkippedByAmount(t, mn, mx))
    ELSE valid

\* after_amount_filter: set to the validated count before the region filter
\* runs, and overwritten only inside the amount branch
AfterAmountFilter(validated, filtered, mn, mx) ==
    IF TruthyNum(mn) \/ TruthyNum(mx) THEN Len(filtered) ELSE Len(validated)

\* after_region_filter: set to the validated count, overwritten inside the
\* region branch
AfterRegionFilter(validated, regional, r) ==
    IF TruthyStr(r) THEN Len(regional) ELSE Len(validated)

\* the exception that leaves validate_and_filter(ts, r, mn, mx): after the
\* validation loop the amounts of all validated records are computed for
\* the "Transaction Amount Range" line, before any filter runs
ValidateAndFilterRaises(ts, r, mn, mx) ==
    LET pass == ValidationPass(ts, 1, << >>, 0)
    IN  IF \E i \in 1..Len(pass.valid) :
              AmountRaises(pass.valid[i]) # "none"
        THEN "OverflowError" ELSE "none"

\* mutant of ValidateAndFilterResult: final_count is taken before the
\* amount filter
ValidateAndFilterCountedEarly(ts, r, mn, mx) ==
    LET pass == ValidationPass(ts, 1, << >>, 0)
        regional == RegionStage(pass.valid, r)
        filtered == AmountStage(regional, mn, mx)
    IN  [ valid_transactions |-> filtered,
          invalid_count |-> pass.invalid,
          filter_summary |->
            [ total_input |-> Len(ts),
              invalid |-> pass.invalid,
              filtered_by_region |-> AfterRegionFilter(pass.valid, regional, r),
              filtered_by_amount |-> AfterAmountFilter(pass.valid, filtered, mn, mx),
              final_count |-> Len(regional) ] ]

\* the returned tuple (valid_transactions, invalid_count, filter_summary)
ValidateAndFilterResult(ts, r, mn, mx) ==
    LET pass == ValidationPass(ts, 1, << >>, 0)
        regional == RegionStage(pass.valid, r)
        filtered == AmountStage(regional, mn, mx)
    IN  [ valid_transactions |-> filtered,
          invalid_count |-> pass.invalid,
          filter_summary |->
            [ total_input |-> Len(ts),
              invalid |-> pass.invalid,
              filtered_by_region |-> AfterRegionFilter(pass.valid, regional, r),
              filtered_by_amount |-> AfterAmountFilter(pass.valid, filtered, mn, mx),
              final_count |-> Len(filtered) ] ]

(***************************************************************************)
(* Inputs of the validator.                                                *)
(***************************************************************************)
Rec(tid, pid, q, p, cid, reg) ==
    [ TransactionID |-> tid, Date |-> <<"d">>, ProductID |-> pid,
      ProductName |-> <<"m">>, Quantity |-> q, UnitPrice |-> p,
      CustomerID |-> cid, Region |-> reg ]

T1 == <<"T", "1">>
P1 == <<"P", "1">>
C1 == <<"C", "1">>
X1 == <<"X", "1">>

\* parsed records: valid ones of several regions and amounts, one record per
\* violated rule, one violating several rules, and one whose price text was
\* "nan"
RecordPool ==
    { Rec(T1, P1, 1, F(1), C1, <<"N">>),
      Rec(T1, P1, 2, F(1), C1, <<"N">>),
      Rec(T1, P1, 2, F(2), C1, <<"n">>),
      Rec(T1, P1, 1, F(2), C1, <<"S">>),
      Rec(T1, P1, 0, F(1), C1, <<"N">>),
      Rec(T1, P1, 1, F(0), C1, <<"N">>),
      Rec(X1, P1, 1, F(1), C1, <<"N">>),
      Rec(T1, << >>, 1, F(1), C1, <<"N">>),
      Rec(T1, P1, 1, F(1), X1, <<"N">>),
      Rec(T1, P1, 1, F(1), C1, << >>),
      Rec(X1, X1, -1, F(-1), << >>, << >>),
      Rec(T1, P1, 1, NaN, C1, <<"N">>) }

RECURSIVE SeqsUpTo(_, _)
SeqsUpTo(S, n) ==
    IF n = 0 THEN { << >> }
    ELSE LET shorter == SeqsUpTo(S, n - 1)
         IN  shorter \cup { Append(s, x) : s \in { u \in shorter : Len(u) = n - 1 }, x \in S }

RegionArgs == { None, Some(<< >>), Some(<<"N">>), Some(<<"n">>) }
AmountArgs == { None, Some(F(0)), Some(F(2)) }

NoSummary == [ total_input |-> 0, invalid |-> 0, filtered_by_region |-> 0,
               filtered_by_amount |-> 0, final_count |-> 0 ]

\* before the analysis and the enrichment: nothing called, nothing returned
NothingAnalysed ==
    /\ total_revenue = F(0)
    /\ top_products = << >>
    /\ top_n = 0
    /\ customer_data = << >>
    /\ daily_data = << >>
    /\ peak_day = [ date |-> None, revenue |-> F(0), transaction_count |-> 0 ]
    /\ low_products = << >>
    /\ low_threshold = 0
    /\ called = { }
    /\ enriched_transactions = << >>
    /\ raised = "none"
    /\ call_log = << >>
    /\ api_products = << >>
    /\ fetch_status = "none"
    /\ saved_file = << >>

Init ==
    /\ raw_lines = << >>
    /\ transactions \in SeqsUpTo(RecordPool, MaxLen)
    /\ pc = "parsed"
    /\ region = None
    /\ min_amount = None
    /\ max_amount = None
    /\ valid_transactions = << >>
    /\ invalid_count = 0
    /\ filter_summary = NoSummary
    /\ sorted_result = << >>
    /\ NothingAnalysed
    /\ product_mapping = << >>

\* one call validate_and_filter(transactions, region=r, min_amount=mn, max_amount=mx)
ValidateAndFilter(r, mn, mx) ==
    /\ pc = "parsed"
    /\ raised' = ValidateAndFilterRaises(transactions, r, mn, mx)
    /\ IF raised' = "none"
       THEN LET res == ValidateAndFilterResult(transactions, r, mn, mx)
            IN  /\ valid_transactions' = res.valid_transactions
                /\ invalid_count' = res.invalid_count
                /\ filter_summary' = res.filter_summary
                /\ pc' = "filtered"
       ELSE /\ UNCHANGED << valid_transactions, invalid_count,
                            filter_summary >>
            /\ pc' = "failed"
    /\ region' = r
    /\ min_amount' = mn
    /\ max_amount' = mx
    /\ UNCHANGED << raw_lines, transactions, sorted_result, analysis_vars,
                    enrich_vars, call_log, api_products, fetch_status,
                    saved_file >>

Next ==
    \E r \in RegionArgs, mn \in AmountArgs, mx \in AmountArgs :
        ValidateAndFilter(r, mn, mx)

Spec == Init /\ [][Next]_vars


(***************************************************************************)
(* Vocabulary of the claims about validate_and_filter.                     *)
(***************************************************************************)
Returned == pc = "filtered"

InSeq(x, s) == \E i \in 1..Len(s) : s[i] = x

\* the six validation rules as the specification words them
SatisfiesRules(t) ==
    /\ t.Quantity > 0
    /\ FGt(t.UnitPrice, F(0))
    /\ StartsWith(t.TransactionID, <<"T">>)
    /\ StartsWith(t.ProductID, <<"P">>)
    /\ StartsWith(t.CustomerID, <<"C">>)
    /\ t.CustomerID # << >>
    /\ t.Region # << >>

\* the records that passed the validation loop, in input order
Validated == SelectSeq(transactions, LAMBDA t : ~FailsValidation(t))

\* a region value was supplied: the argument is neither None nor ""
RegionSupplied == region # None /\ region[1] # << >>

\* the amount lies within every supplied bound, both inclusive
WithinSuppliedBounds(t) ==
    /\ min_amount # None => FGe(Amount(t), min_amount[1])
    /\ max_amount # None => FLe(Amount(t), max_amount[1])

\* C1: the summary's counts form the chain
\* final_count <= filtered_by_amount <= filtered_by_region <= total_input - invalid
C1_SummaryChain ==
    Returned =>
        /\ filter_summary.final_count <= filter_summary.filtered_by_amount
        /\ filter_summary.filtered_by_amount <= filter_summary.filtered_by_region
        /\ filter_summary.filtered_by_region
             <= filter_summary.total_input - filter_summary.invalid

\* C2: filtered_by_region and filtered_by_amount are the running counts after
\* the region stage and after the amount stage; a stage that is not applied
\* passes the previous count through
C2_RunningCounts ==
    Returned =>
        /\ filter_summary.filtered_by_region
             = Len(IF RegionSupplied
                   THEN SelectSeq(Validated, LAMBDA t : t.Region = region[1])
                   ELSE Validated)
        /\ filter_summary.filtered_by_amount = Len(valid_transactions)
        /\ region = None => filter_summary.filtered_by_region = Len(Validated)
        /\ (min_amount = None /\ max_amount = None)
             => filter_summary.filtered_by_amount = filter_summary.filtered_by_region

\* C3: a record that satisfies the rules and passes the region stage is kept
\* iff its amount is >= min_amount when supplied and <= max_amount when
\* supplied, for every supplied value of the bounds, 0 included
C3_AmountBoundsInclusive ==
    Returned =>
        \A i \in 1..Len(transactions) :
            LET t == transactions[i]
            IN  (SatisfiesRules(t) /\ (RegionSupplied => t.Region = region[1]))
                  => (InSeq(t, valid_transactions) <=> WithinSuppliedBounds(t))

\* C4: without region and amount bounds, the invalid count and the returned
\* records partition the input
C4_ValidationPartitions ==
    (Returned /\ region = None /\ min_amount = None /\ max_amount = None)
        => invalid_count + Len(valid_transactions) = Len(transactions)

C4_Witness ==
    /\ Returned /\ region = None /\ min_amount = None /\ max_amount = None
    /\ invalid_count = 2
    /\ Len(valid_transactions) = 1

\* C5: every returned record satisfies all six validation rules
C5_CleanedSatisfyRules ==
    Returned =>
        \A i \in 1..Len(valid_transactions) : SatisfiesRules(valid_transactions[i])

\* C6: the invalid count is the number of input records that violate at
\* least one rule, each counted once
C6_InvalidCountExact ==
    Returned =>
        invalid_count
          = Cardinality({ i \in 1..Len(transactions) : ~SatisfiesRules(transactions[i]) })

\* C7: with a region value supplied the result is exactly the validated
\* records whose Region equals it character for character (and that the
\* amount stage keeps), in input order; without one the region stage removes
\* nothing
C7_RegionFilterExact ==
    Returned =>
        valid_transactions
          = SelectSeq(transactions,
                      LAMBDA t : /\ ~FailsValidation(t)
                                 /\ RegionSupplied => t.Region = region[1]
                                 /\ ~SkippedByAmount(t, min_amount, max_amount))

\* a call with region "N" on validated records of regions "N" and "n": the
\* "n" record is dropped, the "N" record kept
C7_Witness ==
    /\ Returned
    /\ region = Some(<<"N">>)
    /\ \E i \in 1..Len(Validated) : Validated[i].Region = <<"n">>
    /\ Len(valid_transactions) >= 1
    /\ Len(valid_transactions) < Len(Validated)


(***************************************************************************)
(* parse_transactions                                                      *)
(*                                                                         *)
(* The lines are over the characters  | , space - + 0..9 n a  and the      *)
(* letters of the identifiers; int() and float() are modelled on these     *)
(* characters (no decimal point, exponent or underscore occurs).           *)
(***************************************************************************)
Whitespace == { " " }
Digits == { "0", "1", "2", "3", "4", "5", "6", "7", "8", "9" }

DigitValue(c) ==
    CASE c = "0" -> 0 [] c = "1" -> 1 [] c = "2" -> 2 [] c = "3" -> 3
      [] c = "4" -> 4 [] c = "5" -> 5 [] c = "6" -> 6 [] c = "7" -> 7
      [] c = "8" -> 8 [] c = "9" -> 9

\* line.split('|'): the fields between the separators, "" included
RECURSIVE SplitFrom(_, _, _, _, _)
SplitFrom(s, sep, i, cur, acc) ==
    IF i > Len(s) THEN Append(acc, cur)
    ELSE IF s[i] = sep
         THEN SplitFrom(s, sep, i + 1, << >>, Append(acc, cur))
         ELSE SplitFrom(s, sep, i + 1, Append(cur, s[i]), acc)

Split(s, sep) == SplitFrom(s, sep, 1, << >>, << >>)

\* str.strip(): leading and trailing whitespace removed
RECURSIVE LStrip(_)
LStrip(s) == IF s # << >> /\ Head(s) \in Whitespace THEN LStrip(Tail(s)) ELSE s

RECURSIVE RStrip(_)
RStrip(s) ==
    IF s # << >> /\ s[Len(s)] \in Whitespace
    THEN RStrip(SubSeq(s, 1, Len(s) - 1))
    ELSE s

Strip(s) == RStrip(LStrip(s))

\* str.replace(',', '')
RemoveCommas(s) == SelectSeq(s, LAMBDA c : c # ",")

IsDigits(s) == s # << >> /\ \A i \in 1..Len(s) : s[i] \in Digits

RECURSIVE DigitsValue(_)
DigitsValue(s) ==
    IF s = << >> THEN 0
    ELSE 10 * DigitsValue(SubSeq(s, 1, Len(s) - 1)) + DigitValue(s[Len(s)])

\* a run of 310 decimal digits, kept as one symbol of a text
DigitRun == "310 digits"

\* digits only, a run of 310 among them
IsLongDigits(s) ==
    /\ \A i \in 1..Len(s) : s[i] \in Digits \cup { DigitRun }
    /\ \E i \in 1..Len(s) : s[i] = DigitRun

HasSign(s) == s # << >> /\ Head(s) \in { "+", "-" }
Unsigned(s) == IF HasSign(s) THEN Tail(s) ELSE s
Signed(s, n) == IF HasSign(s) /\ Head(s) = "-" THEN 0 - n ELSE n

\* int(text): surrounding whitespace ignored, an optional sign, then digits;
\* anything else raises ValueError (ok = FALSE)
ParseInt(text) ==
    LET u == Strip(text)
    IN  IF IsLongDigits(Unsigned(u))
        THEN [ok |-> TRUE, val |-> Signed(u, TooLarge)]
        ELSE IF IsDigits(Unsigned(u))
        THEN [ok |-> TRUE, val |-> Signed(u, DigitsValue(Unsigned(u)))]
        ELSE [ok |-> FALSE, val |-> 0]

\* float(text): as int(text), and "nan" with an optional sign is NaN
ParseFloat(text) ==
    LET u == Strip(text)
    IN  IF IsDigits(Unsigned(u))
        THEN [ok |-> TRUE, val |-> F(Signed(u, DigitsValue(Unsigned(u))))]
        ELSE IF Unsigned(u) = <<"n", "a", "n">>
             THEN [ok |-> TRUE, val |-> NaN]
             ELSE [ok |-> FALSE, val |-> F(0)]

\* mutant of WrongFieldCount: only too few fields are rejected
TooFewFields(fields) == Len(fields) < 8

\* the field-count test of the loop body: TRUE when the line is skipped
WrongFieldCount(fields) == Len(fields) # 8

\* the body of the loop for one line: << >> when the line is skipped (wrong
\* field count, or ValueError caught), else the one record appended
ParseLine(line) ==
    LET split == Split(line, "|")
    IN  IF WrongFieldCount(split) THEN << >>
        ELSE LET fields == [ i \in 1..Len(split) |-> Strip(split[i]) ]
                 quantity == ParseInt(RemoveCommas(fields[5]))
                 price == ParseFloat(RemoveCommas(fields[6]))
             IN  IF ~quantity.ok \/ ~price.ok THEN << >>
                 ELSE << [ TransactionID |-> fields[1],
                           Date |-> fields[2],
                           ProductID |-> fields[3],
                           ProductName |-> RemoveCommas(fields[4]),
                           Quantity |-> quantity.val,
                           UnitPrice |-> price.val,
                           CustomerID |-> fields[7],
                           Region |-> fields[8] ] >>

\* the loop over raw_lines: the records appended so far, from line i on
RECURSIVE ParseFrom(_, _, _)
ParseFrom(lines, i, acc) ==
    IF i > Len(lines) THEN acc
    ELSE ParseFrom(lines, i + 1, acc \o ParseLine(lines[i]))

ParseTransactionsResult(lines) == ParseFrom(lines, 1, << >>)


(***************************************************************************)
(* Inputs of the parser: a well-formed line and lines that differ from it  *)
(* in one field, in the number of fields, or are empty.                    *)
(***************************************************************************)
RECURSIVE Join(_, _)
Join(fields, sep) ==
    IF fields = << >> THEN << >>
    ELSE IF Len(fields) = 1 THEN fields[1]
         ELSE fields[1] \o << sep >> \o Join(Tail(fields), sep)

GoodFields == << T1, <<"d">>, P1, <<"m">>, <<"2">>, <<"1">>, C1, <<"N">> >>

LineWith(i, text) == Join([GoodFields EXCEPT ![i] = text], "|")

LinePool ==
    { Join(GoodFields, "|"),
      LineWith(8, <<" ", "N", " ">>),         \* padded Region
      LineWith(4, <<",", " ", "m">>),         \* ProductName ", m"
      LineWith(4, <<"m", ",", "m">>),         \* ProductName "m,m"
      LineWith(5, <<"1", ",", "0">>),         \* Quantity "1,0"
      LineWith(5, <<"-", "1">>),              \* Quantity "-1"
      LineWith(5, <<"n", "a", "n">>),         \* Quantity "nan": int() fails
      LineWith(5, << >>),                     \* Quantity "": int() fails
      LineWith(6, <<"n", "a", "n">>),         \* UnitPrice "nan"
      LineWith(6, <<"-">>),                   \* UnitPrice "-": float() fails
      Join(SubSeq(GoodFields, 1, 7), "|"),    \* 7 fields
      Join(Append(GoodFields, << >>), "|"),   \* 9 fields: a trailing '|'
      << >> }                                 \* no '|' at all

InitParse ==
    /\ raw_lines \in SeqsUpTo(LinePool, MaxLines)
    /\ transactions = << >>
    /\ pc = "raw"
    /\ region = None
    /\ min_amount = None
    /\ max_amount = None
    /\ valid_transactions = << >>
    /\ invalid_count = 0
    /\ filter_summary = NoSummary
    /\ sorted_result = << >>
    /\ NothingAnalysed
    /\ product_mapping = << >>

\* one call parse_transactions(raw_lines)
ParseTransactions ==
    /\ pc = "raw"
    /\ transactions' = ParseTransactionsResult(raw_lines)
    /\ pc' = "parsed"
    /\ UNCHANGED << raw_lines, region, min_amount, max_amount,
                    valid_transactions, invalid_count, filter_summary,
                    sorted_result, analysis_vars, enrich_vars, run_vars >>

NextParse == ParseTransactions

SpecParse == InitParse /\ [][NextParse]_vars

(***************************************************************************)
(* Vocabulary of the claims about parse_transactions.                      *)
(***************************************************************************)
Parsed == pc = "parsed"

FieldNames == { "TransactionID", "Date", "ProductID", "ProductName",
                "Quantity", "UnitPrice", "CustomerID", "Region" }

IsFloat(x) ==
    /\ DOMAIN x = { "nan", "v", "ulps" }
    /\ x.nan \in BOOLEAN /\ x.v \in Int /\ x.ulps \in Nat

IsTrimmed(s) == s = << >> \/ (Head(s) \notin Whitespace /\ s[Len(s)] \notin Whitespace)

\* the line splits on '|' into exactly 8 fields and its quantity and price
\* texts convert
Converts(line) ==
    LET f == Split(line, "|")
    IN  /\ Len(f) = 8
        /\ ParseInt(RemoveCommas(Strip(f[5]))).ok
        /\ ParseFloat(RemoveCommas(Strip(f[6]))).ok

ConvertingLines == SelectSeq(raw_lines, Converts)

\* the output is, in input order, one complete typed record per converting
\* line and nothing for any other line
OneRecordPerConvertingLine ==
    /\ Len(transactions) = Len(ConvertingLines)
    /\ \A k \in 1..Len(transactions) :
          LET t == transactions[k]
              f == Split(ConvertingLines[k], "|")
          IN  /\ DOMAIN t = FieldNames
              /\ t.Quantity \in Int
              /\ IsFloat(t.UnitPrice)
              /\ t.TransactionID = Strip(f[1])
              /\ t.Date = Strip(f[2])
              /\ t.ProductID = Strip(f[3])
              /\ t.CustomerID = Strip(f[7])
              /\ t.Region = Strip(f[8])
              /\ t.ProductName = RemoveCommas(Strip(f[4]))

\* C8 as stated: one complete record per converting line, in input order,
\* nothing otherwise, and all six strings of a record are trimmed
C8_AllSixStringsTrimmed ==
    Parsed =>
        /\ OneRecordPerConvertingLine
        /\ \A k \in 1..Len(transactions) :
              LET t == transactions[k]
              IN  /\ IsTrimmed(t.TransactionID) /\ IsTrimmed(t.Date)
                  /\ IsTrimmed(t.ProductID) /\ IsTrimmed(t.ProductName)
                  /\ IsTrimmed(t.CustomerID) /\ IsTrimmed(t.Region)

\* C8 amended: one complete record per converting line, in input order,
\* nothing otherwise; TransactionID, Date, ProductID, CustomerID and Region
\* are trimmed, and ProductName is the trimmed field with its commas removed
C8_RecordPerLineOrNothing ==
    Parsed =>
        /\ OneRecordPerConvertingLine
        /\ \A k \in 1..Len(transactions) :
              LET t == transactions[k]
              IN  /\ IsTrimmed(t.TransactionID) /\ IsTrimmed(t.Date)
                  /\ IsTrimmed(t.ProductID)
                  /\ IsTrimmed(t.CustomerID) /\ IsTrimmed(t.Region)

\* two lines parsed, the first skipped for its field count, the second
\* giving a record whose padded Region was trimmed and whose Quantity is 2
C8_Witness ==
    /\ Parsed
    /\ Len(raw_lines) = 2
    /\ Len(Split(raw_lines[1], "|")) = 9
    /\ raw_lines[2] = LineWith(8, <<" ", "N", " ">>)
    /\ transactions = << Rec(T1, P1, 2, F(1), C1, <<"N">>) >>


(***************************************************************************)
(* calculate_total_revenue and region_wise_sales                           *)
(*                                                                         *)
(* A dict is the sequence of its entries in insertion order, which is the  *)
(* order a Python dict iterates in.  A percentage is kept in hundredths:   *)
(* 4286 is 42.86.                                                          *)
(***************************************************************************)

\* the loop of calculate_total_revenue from record i on
RECURSIVE TotalRevenueFrom(_, _, _)
TotalRevenueFrom(ts, i, total) ==
    IF i > Len(ts) THEN total
    ELSE TotalRevenueFrom(ts, i + 1, FAdd(total, Amount(ts[i])))

CalculateTotalRevenue(ts) == TotalRevenueFrom(ts, 1, F(0))

\* region_data[region]: the default entry is created on first access, then
\* total_sales and transaction_count are updated in place
AddToRegion(data, t) ==
    IF \E k \in 1..Len(data) : data[k].region = t.Region
    THEN [ k \in 1..Len(data) |->
             IF data[k].region = t.Region
             THEN [ data[k] EXCEPT !.total_sales = FAdd(@, Amount(t)),
                                   !.transaction_count = @ + 1 ]
             ELSE data[k] ]
    ELSE Append(data, [ region |-> t.Region,
                        total_sales |-> FAdd(F(0), Amount(t)),
                        transaction_count |-> 1 ])

\* the grouping loop from record i on
RECURSIVE RegionDataFrom(_, _, _)
RegionDataFrom(ts, i, data) ==
    IF i > Len(ts) THEN data
    ELSE RegionDataFrom(ts, i + 1, AddToRegion(data, ts[i]))

\* mutant of RoundedHundredths: the percentage is truncated, not rounded
TruncatedHundredths(num, den) == (10000 * num) \div den

\* round(x, 2) of x = 100 * num / den, in hundredths: to the nearest
\* hundredth, a tie to the even one.  An exact tie needs den to be a
\* multiple of 32; for every other num / den the binary floating-point
\* computation total_sales / total_revenue * 100 rounds to the same
\* hundredth as the exact quotient.
RoundedHundredths(num, den) ==
    LET q == (10000 * num) \div den
        r == (10000 * num) % den
    IN  IF 2 * r < den THEN q
        ELSE IF 2 * r > den THEN q + 1
             ELSE IF q % 2 = 0 THEN q ELSE q + 1

\* round((total_sales / total_revenue * 100) if total_revenue > 0 else 0, 2),
\* the function's local total_revenue is called overall_revenue here;
\* parts of 2^-53 beside a whole part are too small to move the hundredth,
\* and between two amounts below 1.0 the quotient is that of their counts
Percentage(total_sales, overall_revenue) ==
    IF FGt(overall_revenue, F(0))
    THEN IF overall_revenue.v # 0
         THEN RoundedHundredths(total_sales.v, overall_revenue.v)
         ELSE RoundedHundredths(total_sales.ulps, overall_revenue.ulps)
    ELSE 0

\* mutant of SortsBefore: equal keys change places (an unstable reverse)
SortsBeforeOrTies(e, f) == FGe(e.total_sales, f.total_sales)

\* the order of two entries under key total_sales with reverse=True: TRUE
\* when e must come before f for their keys alone
SortsBefore(e, f) == FGt(e.total_sales, f.total_sales)

\* sorted(..., reverse=True) is stable: an entry goes behind every entry
\* already placed that does not sort after it (the keys are ordered floats)
RECURSIVE InsertSorted(_, _)
InsertSorted(placed, e) ==
    IF placed = << >> THEN << e >>
    ELSE IF SortsBefore(e, placed[Len(placed)])
         THEN Append(InsertSorted(SubSeq(placed, 1, Len(placed) - 1), e),
                     placed[Len(placed)])
         ELSE Append(placed, e)

RECURSIVE SortedFrom(_, _, _)
SortedFrom(entries, i, placed) ==
    IF i > Len(entries) THEN placed
    ELSE SortedFrom(entries, i + 1, InsertSorted(placed, entries[i]))

\* the returned dict of region_wise_sales, in iteration order
RegionWiseSalesResult(ts) ==
    LET overall_revenue == CalculateTotalRevenue(ts)
        region_data == RegionDataFrom(ts, 1, << >>)
        result == [ k \in 1..Len(region_data) |->
                      [ region |-> region_data[k].region,
                        total_sales |-> region_data[k].total_sales,
                        transaction_count |-> region_data[k].transaction_count,
                        percentage |-> Percentage(region_data[k].total_sales,
                                                  overall_revenue) ] ]
    IN  SortedFrom(result, 1, << >>)

(***************************************************************************)
(* Inputs of region_wise_sales: validated records of five regions.         *)
(***************************************************************************)
SalesPool ==
    { Rec(T1, P1, 1, F(1), C1, <<"A">>),
      Rec(T1, P1, 3, F(1), C1, <<"A">>),
      Rec(T1, P1, 1, F(1), C1, <<"B">>),
      Rec(T1, P1, 1, F(3), C1, <<"B">>),
      Rec(T1, P1, 1, F(1), C1, <<"C">>),
      Rec(T1, P1, 1, F(1), C1, <<"D">>),
      Rec(T1, P1, 1, F(1), C1, <<"E">>) }

InitRegion ==
    /\ raw_lines = << >>
    /\ transactions = << >>
    /\ pc = "filtered"
    /\ region = None
    /\ min_amount = None
    /\ max_amount = None
    /\ valid_transactions \in SeqsUpTo(SalesPool, MaxSales)
    /\ invalid_count = 0
    /\ filter_summary = NoSummary
    /\ sorted_result = << >>
    /\ NothingAnalysed
    /\ product_mapping = << >>

\* one call region_wise_sales(valid_transactions)
RegionWiseSales ==
    /\ pc \in { "filtered", "analysed" }
    /\ sorted_result' = RegionWiseSalesResult(valid_transactions)
    /\ pc' = "analysed"
    /\ called' = called \cup { "region_wise_sales" }
    /\ UNCHANGED << raw_lines, transactions, region, min_amount, max_amount,
                    valid_transactions, invalid_count, filter_summary,
                    total_revenue, top_products, top_n, customer_data,
                    daily_data, peak_day, low_products, low_threshold,
                    enrich_vars, run_vars >>

NextRegion == RegionWiseSales

SpecRegion == InitRegion /\ [][NextRegion]_vars


(***************************************************************************)
(* Vocabulary of the claims about region_wise_sales.                       *)
(***************************************************************************)
Analysed == pc = "analysed"

RECURSIVE SumOfPercentages(_)
SumOfPercentages(entries) ==
    IF entries = << >> THEN 0
    ELSE entries[1].percentage + SumOfPercentages(Tail(entries))

Distance(a, b) == IF a >= b THEN a - b ELSE b - a

\* Quantity x UnitPrice summed over the records of region r
RECURSIVE SalesOfRegion(_, _)
SalesOfRegion(ts, r) ==
    IF ts = << >> THEN 0
    ELSE (IF ts[1].Region = r THEN ts[1].Quantity * ts[1].UnitPrice.v ELSE 0)
           + SalesOfRegion(Tail(ts), r)

RECURSIVE SalesOfAll(_)
SalesOfAll(ts) ==
    IF ts = << >> THEN 0
    ELSE ts[1].Quantity * ts[1].UnitPrice.v + SalesOfAll(Tail(ts))

\* the index of the first record of region r
FirstSeen(ts, r) ==
    CHOOSE i \in 1..Len(ts) :
        ts[i].Region = r /\ \A j \in 1..(i - 1) : ts[j].Region # r

\* C9 as stated: with total revenue > 0 the rounded percentages sum to
\* within 0.01 of 100.00; with total revenue 0 every percentage is 0
C9_PercentagesWithinOneHundredth ==
    Analysed =>
        /\ SalesOfAll(valid_transactions) > 0
             => Distance(SumOfPercentages(sorted_result), 10000) <= 1
        /\ SalesOfAll(valid_transactions) = 0
             => \A k \in 1..Len(sorted_result) : sorted_result[k].percentage = 0

\* C9 amended: with total revenue > 0 the rounded percentages sum to within
\* 0.005 per region of 100.00; with total revenue 0 every percentage is 0
C9_PercentagesWithinHalfPerRegion ==
    Analysed =>
        /\ SalesOfAll(valid_transactions) > 0
             => 2 * Distance(SumOfPercentages(sorted_result), 10000)
                  <= Len(sorted_result)
        /\ SalesOfAll(valid_transactions) = 0
             => \A k \in 1..Len(sorted_result) : sorted_result[k].percentage = 0

\* five regions with sales 3, 1, 1, 1, 1: 42.86 + 4 x 14.29 = 100.02
C9_Witness ==
    /\ Analysed
    /\ Len(sorted_result) = 5
    /\ sorted_result[1].percentage = 4286
    /\ sorted_result[5].percentage = 1429
    /\ SumOfPercentages(sorted_result) = 10002

\* C10: one entry per distinct Region, with total_sales the sum of the
\* region's amounts and transaction_count the number of its records, in
\* order of total_sales descending, equal totals in first-encounter order
C10_RegionEntriesSortedStable ==
    Analysed =>
        LET ts == valid_transactions
            n == Len(sorted_result)
        IN  /\ { sorted_result[k].region : k \in 1..n }
                 = { ts[i].Region : i \in 1..Len(ts) }
            /\ \A j, k \in 1..n :
                  sorted_result[j].region = sorted_result[k].region => j = k
            /\ \A k \in 1..n :
                  LET e == sorted_result[k]
                  IN  /\ e.total_sales = F(SalesOfRegion(ts, e.region))
                      /\ e.transaction_count
                           = Cardinality({ i \in 1..Len(ts) : ts[i].Region = e.region })
            /\ \A j, k \in 1..n :
                  j < k =>
                    \/ sorted_result[j].total_sales.v > sorted_result[k].total_sales.v
                    \/ /\ sorted_result[j].total_sales.v = sorted_result[k].total_sales.v
                       /\ FirstSeen(ts, sorted_result[j].region)
                            < FirstSeen(ts, sorted_result[k].region)

\* the region encountered last has the largest total and comes first, and
\* two regions with equal totals follow, one of them with two records
C10_Witness ==
    /\ Analysed
    /\ Len(sorted_result) = 3
    /\ FirstSeen(valid_transactions, sorted_result[1].region) = Len(valid_transactions)
    /\ sorted_result[1].total_sales.v > sorted_result[2].total_sales.v
    /\ sorted_result[2].total_sales = sorted_result[3].total_sales
    /\ sorted_result[2].transaction_count = 2

(***************************************************************************)
(* top_selling_products and low_performing_products                        *)
(***************************************************************************)
MaxProducts == 3     \* longest record sequence given to the product functions
MaxN == 3            \* largest n given to top_selling_products
MaxThreshold == 4    \* largest threshold given to low_performing_products

\* sorted(entries, key=...) is stable: an entry goes in front of the first
\* entry already placed that it must precede, and behind all others;
\* before[i, j] says that entries[i] must precede entries[j] for their keys
StableSorted(entries, before) ==
    LET Insert(placed, i) ==
            LET later == { j \in 1..Len(placed) : before[i, placed[j]] }
                at == IF later = { } THEN Len(placed) + 1
                      ELSE CHOOSE j \in later : \A k \in later : j <= k
            IN  SubSeq(placed, 1, at - 1) \o << i >>
                    \o SubSeq(placed, at, Len(placed))
        order[i \in 0..Len(entries)] ==
            IF i = 0 THEN << >> ELSE Insert(order[i - 1], i)
    IN  [ k \in 1..Len(entries) |-> entries[order[Len(entries)][k]] ]

\* one pass of the loop over the transactions: product_data after the
\* record t, as the dict's items in insertion order
AddToProduct(data, t) ==
    LET revenue == FMul(t.Quantity, t.UnitPrice)
        known == \E k \in 1..Len(data) : data[k].name = t.ProductName
        started == IF known THEN data
                   ELSE Append(data, [ name |-> t.ProductName,
                                       quantity |-> 0, revenue |-> F(0) ])
    IN  [ k \in 1..Len(started) |->
            IF started[k].name = t.ProductName
            THEN [ started[k] EXCEPT !.quantity = @ + t.Quantity,
                                     !.revenue = FAdd(@, revenue) ]
            ELSE started[k] ]

RECURSIVE ProductDataFrom(_, _, _)
ProductDataFrom(ts, i, data) ==
    IF i > Len(ts) THEN data
    ELSE ProductDataFrom(ts, i + 1, AddToProduct(data, ts[i]))

\* the tuples (name, quantity, revenue) of product_data.items()
ProductList(data) ==
    [ k \in 1..Len(data) |-> << data[k].name, data[k].quantity, data[k].revenue >> ]

\* mutant of MoreSold: the list is in ascending order of quantity
LeastSoldFirst(x, y) == x[2] < y[2]

\* mutant of MoreSold: equal quantities change places
MoreSoldOrTies(x, y) == x[2] >= y[2]

\* key=lambda x: x[1], reverse=True: x comes before y for a larger quantity
MoreSold(x, y) == x[2] > y[2]

\* sorted_products[:n] for n >= 0
FirstN(s, n) == SubSeq(s, 1, IF n < Len(s) THEN n ELSE Len(s))

\* the returned list of top_selling_products(ts, n)
TopSellingProductsResult(ts, n) ==
    LET product_data == ProductDataFrom(ts, 1, << >>)
        product_list == ProductList(product_data)
        sorted_products ==
            StableSorted(product_list,
                         [ i, j \in 1..Len(product_list) |->
                             MoreSold(product_list[i], product_list[j]) ])
    IN  FirstN(sorted_products, n)

\* mutant of BelowThreshold: a quantity equal to the threshold is kept
AtOrBelowThreshold(quantity, threshold) == quantity <= threshold

\* if data['quantity'] < threshold
BelowThreshold(quantity, threshold) == quantity < threshold

\* key=lambda x: x[1]: x comes before y for a smaller quantity
LessSold(x, y) == x[2] < y[2]

\* the returned list of low_performing_products(ts, threshold)
LowPerformingProductsResult(ts, threshold) ==
    LET product_data == ProductDataFrom(ts, 1, << >>)
        items == ProductList(product_data)
        low == SelectSeq(items, LAMBDA x : BelowThreshold(x[2], threshold))
    IN  StableSorted(low, [ i, j \in 1..Len(low) |-> LessSold(low[i], low[j]) ])

\* a validated record of the given product, customer, date and region
Sale(name, q, p, cid, date, reg) ==
    [ Rec(T1, P1, q, p, cid, reg) EXCEPT !.ProductName = name, !.Date = date ]

\* validated records of four products, with equal and unequal quantities
ProductPool ==
    { Sale(<<"x">>, 1, F(1), C1, <<"d">>, <<"A">>),
      Sale(<<"x">>, 2, F(1), C1, <<"d">>, <<"A">>),
      Sale(<<"y">>, 2, F(3), C1, <<"d">>, <<"A">>),
      Sale(<<"z">>, 2, F(1), C1, <<"d">>, <<"A">>),
      Sale(<<"z">>, 3, F(2), C1, <<"d">>, <<"A">>),
      Sale(<<"w">>, 1, F(2), C1, <<"d">>, <<"A">>) }

InitProducts ==
    /\ raw_lines = << >>
    /\ transactions = << >>
    /\ pc = "filtered"
    /\ region = None
    /\ min_amount = None
    /\ max_amount = None
    /\ valid_transactions \in SeqsUpTo(ProductPool, MaxProducts)
    /\ invalid_count = 0
    /\ filter_summary = NoSummary
    /\ sorted_result = << >>
    /\ NothingAnalysed
    /\ product_mapping = << >>

\* what no analysis function touches
input_vars == << raw_lines, transactions, region, min_amount, max_amount,
                 valid_transactions, invalid_count, filter_summary >>

\* one call top_selling_products(valid_transactions, n)
TopSellingProducts(n) ==
    /\ pc \in { "filtered", "analysed" }
    /\ top_products' = TopSellingProductsResult(valid_transactions, n)
    /\ top_n' = n
    /\ pc' = "analysed"
    /\ called' = called \cup { "top_selling_products" }
    /\ UNCHANGED << input_vars, sorted_result, total_revenue, customer_data,
                    daily_data, peak_day, low_products, low_threshold,
                    enrich_vars, run_vars >>

\* one call low_performing_products(valid_transactions, threshold)
LowPerformingProducts(threshold) ==
    /\ pc \in { "filtered", "analysed" }
    /\ low_products' = LowPerformingProductsResult(valid_transactions, threshold)
    /\ low_threshold' = threshold
    /\ pc' = "analysed"
    /\ called' = called \cup { "low_performing_products" }
    /\ UNCHANGED << input_vars, sorted_result, total_revenue, top_products,
                    top_n, customer_data, daily_data, peak_day, enrich_vars, run_vars >>

NextProducts ==
    \/ \E n \in 0..MaxN : TopSellingProducts(n)
    \/ \E threshold \in 0..MaxThreshold : LowPerformingProducts(threshold)

SpecProducts == InitProducts /\ [][NextProducts]_vars

(***************************************************************************)
(* Vocabulary of the claims about the product functions.                   *)
(***************************************************************************)
Has(name) == name \in called

\* the ProductName values of a record sequence
ProductNames(ts) == { ts[i].ProductName : i \in 1..Len(ts) }

\* the summed Quantity of the records of one product
RECURSIVE QuantityOfProduct(_, _)
QuantityOfProduct(ts, name) ==
    IF ts = << >> THEN 0
    ELSE (IF ts[1].ProductName = name THEN ts[1].Quantity ELSE 0)
         + QuantityOfProduct(Tail(ts), name)

\* the float sum, from the left, of Quantity * UnitPrice over records
RevenueOf(kept) ==
    LET acc[i \in 0..Len(kept)] ==
            IF i = 0 THEN F(0)
            ELSE FAdd(acc[i - 1], FMul(kept[i].Quantity, kept[i].UnitPrice))
    IN  acc[Len(kept)]

RevenueOfProduct(ts, name) ==
    RevenueOf(SelectSeq(ts, LAMBDA t : t.ProductName = name))

\* the position of the first record of a product
FirstSold(ts, name) ==
    CHOOSE i \in 1..Len(ts) :
        /\ ts[i].ProductName = name
        /\ \A j \in 1..(i - 1) : ts[j].ProductName # name

\* every tuple is (name, total quantity, total revenue) of a product of the
\* input, and no product has two tuples
ProductTuples(list, ts) ==
    /\ \A k \in 1..Len(list) :
          /\ list[k][1] \in ProductNames(ts)
          /\ list[k][2] = QuantityOfProduct(ts, list[k][1])
          /\ list[k][3] = RevenueOfProduct(ts, list[k][1])
    /\ \A j, k \in 1..Len(list) : list[j][1] = list[k][1] => j = k

NamesIn(list) == { list[k][1] : k \in 1..Len(list) }

\* C11: top_selling_products returns min(n, number of products) tuples
\* (name, total quantity, total revenue), by total quantity descending, equal
\* quantities in order of first encounter, and no product left out has a
\* larger quantity than a returned one
C11_TopSellingProducts ==
    Has("top_selling_products") =>
        LET ts == valid_transactions
            products == Cardinality(ProductNames(ts))
        IN  /\ Len(top_products) = (IF top_n < products THEN top_n ELSE products)
            /\ ProductTuples(top_products, ts)
            /\ \A j, k \in 1..Len(top_products) :
                  j < k =>
                    \/ top_products[j][2] > top_products[k][2]
                    \/ /\ top_products[j][2] = top_products[k][2]
                       /\ FirstSold(ts, top_products[j][1])
                            < FirstSold(ts, top_products[k][1])
            /\ \A name \in ProductNames(ts) \ NamesIn(top_products) :
                  \A k \in 1..Len(top_products) :
                      QuantityOfProduct(ts, name) <= top_products[k][2]

\* three products, n = 2: the two returned have the same quantity and one
\* product is left out
C11_Witness ==
    /\ Has("top_selling_products")
    /\ top_n = 2
    /\ Len(top_products) = 2
    /\ Cardinality(ProductNames(valid_transactions)) = 3
    /\ top_products[1][2] = top_products[2][2]

\* C13: low_performing_products returns exactly the products whose summed
\* Quantity is strictly below the threshold, with total quantity and
\* revenue, by quantity ascending, equal quantities in order of first
\* encounter
C13_LowPerformingProducts ==
    Has("low_performing_products") =>
        LET ts == valid_transactions
        IN  /\ NamesIn(low_products) =
                  { name \in ProductNames(ts) :
                        QuantityOfProduct(ts, name) < low_threshold }
            /\ ProductTuples(low_products, ts)
            /\ \A j, k \in 1..Len(low_products) :
                  j < k =>
                    \/ low_products[j][2] < low_products[k][2]
                    \/ /\ low_products[j][2] = low_products[k][2]
                       /\ FirstSold(ts, low_products[j][1])
                            < FirstSold(ts, low_products[k][1])

\* a product whose quantity equals the threshold is left out while two
\* products of one smaller quantity are returned
C13_Witness ==
    /\ Has("low_performing_products")
    /\ Len(low_products) = 2
    /\ low_products[1][2] = low_products[2][2]
    /\ \E name \in ProductNames(valid_transactions) :
          QuantityOfProduct(valid_transactions, name) = low_threshold

(***************************************************************************)
(* daily_sales_trend and find_peak_sales_day                               *)
(***************************************************************************)
MaxDays == 3         \* longest record sequence given to the daily functions

\* ord(c) of the characters that the dates and product names are made of
CodePoint(c) ==
    CASE c = "0" -> 48 [] c = "1" -> 49 [] c = "2" -> 50 [] c = "9" -> 57
      [] c = "B" -> 66 [] c = "a" -> 97 [] c = "b" -> 98

\* a < b for two str values: by code point, a proper prefix first
RECURSIVE StrLess(_, _)
StrLess(a, b) ==
    IF b = << >> THEN FALSE
    ELSE IF a = << >> THEN TRUE
    ELSE IF a[1] # b[1] THEN CodePoint(a[1]) < CodePoint(b[1])
    ELSE StrLess(Tail(a), Tail(b))

\* mutant of AddToDay: the revenue of a day adds the UnitPrice of its
\* records, not Quantity * UnitPrice
AddPriceToDay(data, t) ==
    LET known == \E k \in 1..Len(data) : data[k].date = t.Date
        started == IF known THEN data
                   ELSE Append(data, [ date |-> t.Date, revenue |-> F(0),
                                       transaction_count |-> 0,
                                       customers |-> { } ])
    IN  [ k \in 1..Len(started) |->
            IF started[k].date = t.Date
            THEN [ started[k] EXCEPT !.revenue = FAdd(@, t.UnitPrice),
                                     !.transaction_count = @ + 1,
                                     !.customers = @ \cup { t.CustomerID } ]
            ELSE started[k] ]

\* one pass of the loop over the transactions: daily_data after the record
\* t, as the dict's items in insertion order
AddToDay(data, t) ==
    LET amount == FMul(t.Quantity, t.UnitPrice)
        known == \E k \in 1..Len(data) : data[k].date = t.Date
        started == IF known THEN data
                   ELSE Append(data, [ date |-> t.Date, revenue |-> F(0),
                                       transaction_count |-> 0,
                                       customers |-> { } ])
    IN  [ k \in 1..Len(started) |->
            IF started[k].date = t.Date
            THEN [ started[k] EXCEPT !.revenue = FAdd(@, amount),
                                     !.transaction_count = @ + 1,
                                     !.customers = @ \cup { t.CustomerID } ]
            ELSE started[k] ]

RECURSIVE DailyDataFrom(_, _, _)
DailyDataFrom(ts, i, data) ==
    IF i > Len(ts) THEN data
    ELSE DailyDataFrom(ts, i + 1, AddToDay(data, ts[i]))

\* mutant of DateBefore: the dates are compared as numbers, shorter first
DateBeforeAsNumber(e, f) ==
    \/ Len(e.date) < Len(f.date)
    \/ Len(e.date) = Len(f.date) /\ StrLess(e.date, f.date)

\* sorted(result.items()): by the date (the keys are distinct)
DateBefore(e, f) == StrLess(e.date, f.date)

\* the returned dict of daily_sales_trend, in iteration order
DailySalesTrendResult(ts) ==
    LET data == DailyDataFrom(ts, 1, << >>)
        result == [ k \in 1..Len(data) |->
                      [ date |-> data[k].date,
                        revenue |-> data[k].revenue,
                        transaction_count |-> data[k].transaction_count,
                        unique_customers |-> Cardinality(data[k].customers) ] ]
    IN  StableSorted(result, [ i, j \in 1..Len(result) |->
                                 DateBefore(result[i], result[j]) ])

\* mutant of BeatsPeak: a day equal to the peak replaces it
BeatsOrTiesPeak(revenue, peak_revenue) == FGe(revenue, peak_revenue)

\* if data['revenue'] > peak_revenue
BeatsPeak(revenue, peak_revenue) == FGt(revenue, peak_revenue)

\* the loop over daily_trend.items(): the peak after the entries from i on
RECURSIVE PeakFrom(_, _, _)
PeakFrom(daily_trend, i, peak) ==
    IF i > Len(daily_trend) THEN peak
    ELSE PeakFrom(daily_trend, i + 1,
                  IF BeatsPeak(daily_trend[i].revenue, peak.revenue)
                  THEN [ date |-> Some(daily_trend[i].date),
                         revenue |-> daily_trend[i].revenue,
                         transaction_count |-> daily_trend[i].transaction_count ]
                  ELSE peak)

\* mutant of FindPeakSalesDayResult: peak_date starts as the empty string
FindPeakFromEmptyDate(ts) ==
    PeakFrom(DailySalesTrendResult(ts), 1,
             [ date |-> Some(<< >>), revenue |-> F(0),
               transaction_count |-> 0 ])

\* the returned tuple (peak_date, peak_revenue, peak_count) of
\* find_peak_sales_day
FindPeakSalesDayResult(ts) ==
    PeakFrom(DailySalesTrendResult(ts), 1,
             [ date |-> None, revenue |-> F(0), transaction_count |-> 0 ])

\* validated records of three dates, whose order as strings is not their
\* order as numbers, and of two customers
DayPool ==
    { Sale(<<"m">>, 1, F(2), C1, <<"9">>, <<"A">>),
      Sale(<<"m">>, 1, F(1), X1, <<"9">>, <<"A">>),
      Sale(<<"m">>, 2, F(1), C1, <<"1", "0">>, <<"A">>),
      Sale(<<"m">>, 1, F(1), X1, <<"1", "0">>, <<"A">>),
      Sale(<<"m">>, 1, F(3), C1, <<"2">>, <<"A">>),
      Sale(<<"m">>, 1, F(1), C1, <<"2">>, <<"A">>) }

InitDaily ==
    /\ raw_lines = << >>
    /\ transactions = << >>
    /\ pc = "filtered"
    /\ region = None
    /\ min_amount = None
    /\ max_amount = None
    /\ valid_transactions \in SeqsUpTo(DayPool, MaxDays)
    /\ invalid_count = 0
    /\ filter_summary = NoSummary
    /\ sorted_result = << >>
    /\ NothingAnalysed
    /\ product_mapping = << >>

\* mutant of DailySalesTrend: the list is sorted in place by date before it
\* is grouped
DailySalesTrendInPlace ==
    /\ pc \in { "filtered", "analysed" }
    /\ valid_transactions' =
          StableSorted(valid_transactions,
                       [ i, j \in 1..Len(valid_transactions) |->
                           StrLess(valid_transactions[i].Date,
                                   valid_transactions[j].Date) ])
    /\ daily_data' = DailySalesTrendResult(valid_transactions)
    /\ pc' = "analysed"
    /\ called' = called \cup { "daily_sales_trend" }
    /\ UNCHANGED << raw_lines, transactions, region, min_amount, max_amount,
                    invalid_count, filter_summary, sorted_result,
                    total_revenue, top_products, top_n, customer_data,
                    peak_day, low_products, low_threshold, enrich_vars, run_vars >>

\* one call daily_sales_trend(valid_transactions)
DailySalesTrend ==
    /\ pc \in { "filtered", "analysed" }
    /\ daily_data' = DailySalesTrendResult(valid_transactions)
    /\ pc' = "analysed"
    /\ called' = called \cup { "daily_sales_trend" }
    /\ UNCHANGED << input_vars, sorted_result, total_revenue, top_products,
                    top_n, customer_data, peak_day, low_products,
                    low_threshold, enrich_vars, run_vars >>

\* one call find_peak_sales_day(valid_transactions)
FindPeakSalesDay ==
    /\ pc \in { "filtered", "analysed" }
    /\ peak_day' = FindPeakSalesDayResult(valid_transactions)
    /\ pc' = "analysed"
    /\ called' = called \cup { "find_peak_sales_day" }
    /\ UNCHANGED << input_vars, sorted_result, total_revenue, top_products,
                    top_n, customer_data, daily_data, low_products,
                    low_threshold, enrich_vars, run_vars >>

NextDaily == DailySalesTrend \/ FindPeakSalesDay

SpecDaily == InitDaily /\ [][NextDaily]_vars

(***************************************************************************)
(* Vocabulary of the claims about the daily functions.                     *)
(***************************************************************************)
Dates(ts) == { ts[i].Date : i \in 1..Len(ts) }

OnDate(ts, date) == SelectSeq(ts, LAMBDA t : t.Date = date)

RevenueOfDate(ts, date) == RevenueOf(OnDate(ts, date))

CustomersOnDate(ts, date) ==
    { OnDate(ts, date)[i].CustomerID : i \in 1..Len(OnDate(ts, date)) }

\* C12: find_peak_sales_day returns the (date, revenue, transaction_count)
\* of the date whose revenue is maximal, the smallest such date as a string
\* when several share it, and (None, 0.0, 0) on an empty input
C12_PeakSalesDay ==
    Has("find_peak_sales_day") =>
        LET ts == valid_transactions
        IN  IF ts = << >>
            THEN peak_day = [ date |-> None, revenue |-> F(0),
                              transaction_count |-> 0 ]
            ELSE /\ peak_day.date # None
                 /\ LET date == peak_day.date[1]
                    IN  /\ date \in Dates(ts)
                        /\ peak_day.revenue = RevenueOfDate(ts, date)
                        /\ peak_day.transaction_count = Len(OnDate(ts, date))
                        /\ \A other \in Dates(ts) \ { date } :
                              \/ FLt(RevenueOfDate(ts, other), peak_day.revenue)
                              \/ /\ RevenueOfDate(ts, other) = peak_day.revenue
                                 /\ StrLess(date, other)

\* the dates "9" and "10" share the maximal revenue, "9" came first in the
\* input and "10" is returned
C12_Witness ==
    /\ Has("find_peak_sales_day")
    /\ Len(valid_transactions) >= 2
    /\ valid_transactions[1].Date = <<"9">>
    /\ peak_day.date = Some(<<"1", "0">>)
    /\ RevenueOfDate(valid_transactions, <<"9">>) = peak_day.revenue

\* C16: daily_sales_trend returns one entry per Date with the revenue, the
\* number of records and the number of distinct customers of that date
\* (1 <= unique_customers <= transaction_count), in strictly ascending
\* order of the Date string whatever the input order
C16_DailySalesTrend ==
    Has("daily_sales_trend") =>
        LET ts == valid_transactions
        IN  /\ { daily_data[k].date : k \in 1..Len(daily_data) } = Dates(ts)
            /\ Len(daily_data) = Cardinality(Dates(ts))
            /\ \A k \in 1..Len(daily_data) :
                  LET e == daily_data[k]
                  IN  /\ e.revenue = RevenueOfDate(ts, e.date)
                      /\ e.transaction_count = Len(OnDate(ts, e.date))
                      /\ e.unique_customers =
                            Cardinality(CustomersOnDate(ts, e.date))
                      /\ 1 <= e.unique_customers
                      /\ e.unique_customers <= e.transaction_count
            /\ \A j, k \in 1..Len(daily_data) :
                  j < k => StrLess(daily_data[j].date, daily_data[k].date)

\* the input has "9" before "10" and "2", the result has "10", "2", "9"
C16_Witness ==
    /\ Has("daily_sales_trend")
    /\ Len(daily_data) = 3
    /\ valid_transactions[1].Date = <<"9">>
    /\ daily_data[1].date = <<"1", "0">>
    /\ daily_data[3].date = <<"9">>

(***************************************************************************)
(* top_selling_products(tx, n=5) beside low_performing_products(tx,        *)
(* threshold=10), as main calls them.                                      *)
(***************************************************************************)
DefaultN == 5            \* n=5
DefaultThreshold == 10   \* threshold=10
MaxCatalog == 6          \* number of products the records are drawn from

DigitChars == << "1", "2", "3", "4", "5", "6", "7", "8", "9" >>

\* the records of the i-th product, in one of its ways to sell: not at all,
\* just below the threshold, at the threshold, or above it by two records
CatalogSales(i) ==
    LET name == << "p", DigitChars[i] >>
        sale(q) == Sale(name, q, F(1), C1, <<"d">>, <<"A">>)
    IN  { << >>, << sale(9) >>, << sale(10) >>, << sale(9), sale(5) >> }

\* the record sequences that sell the first k products in catalogue order
RECURSIVE CatalogInputs(_)
CatalogInputs(k) ==
    IF k = 0 THEN { << >> }
    ELSE { ts \o more : ts \in CatalogInputs(k - 1), more \in CatalogSales(k) }

InitTopLow ==
    /\ raw_lines = << >>
    /\ transactions = << >>
    /\ pc = "filtered"
    /\ region = None
    /\ min_amount = None
    /\ max_amount = None
    /\ valid_transactions \in CatalogInputs(MaxCatalog)
    /\ invalid_count = 0
    /\ filter_summary = NoSummary
    /\ sorted_result = << >>
    /\ NothingAnalysed
    /\ product_mapping = << >>

NextTopLow ==
    \/ TopSellingProducts(DefaultN)
    \/ LowPerformingProducts(DefaultThreshold)

SpecTopLow == InitTopLow /\ [][NextTopLow]_vars

\* the top-5 cutoff is the quantity of the last tuple that
\* top_selling_products returned: TRUE when a product has exactly that
\* quantity and it is below 10
CutoffBelowThreshold ==
    /\ top_products # << >>
    /\ \E name \in ProductNames(valid_transactions) :
          /\ QuantityOfProduct(valid_transactions, name)
                = top_products[Len(top_products)][2]
          /\ QuantityOfProduct(valid_transactions, name) < DefaultThreshold

\* C14: the names returned by top_selling_products(tx, n=5) and those
\* returned by low_performing_products(tx, threshold=10) are disjoint
\* whenever no product's total quantity is both at the top-5 cutoff and
\* below 10
C14_TopAndLowDisjoint ==
    ( /\ Has("top_selling_products") /\ top_n = DefaultN
      /\ Has("low_performing_products") /\ low_threshold = DefaultThreshold
      /\ ~CutoffBelowThreshold )
        => NamesIn(top_products) \cap NamesIn(low_products) = { }

\* six products: the five returned sold 10 or more (one of them exactly 10,
\* one by two records), the sixth sold less and is the only low performer
C14_Witness ==
    /\ Has("top_selling_products") /\ top_n = DefaultN
    /\ Has("low_performing_products") /\ low_threshold = DefaultThreshold
    /\ ~CutoffBelowThreshold
    /\ Len(top_products) = 5
    /\ Len(low_products) = 1
    /\ top_products[5][2] = 10
    /\ top_products[1][2] = 14

(***************************************************************************)
(* customer_analysis                                                       *)
(***************************************************************************)
MaxCustomers == 4    \* longest record sequence given to customer_analysis

\* mutant of AddToCustomer: purchase_count counts the distinct products
AddToCustomerPerProduct(data, t) ==
    LET amount == FMul(t.Quantity, t.UnitPrice)
        known == \E k \in 1..Len(data) : data[k].customer_id = t.CustomerID
        started == IF known THEN data
                   ELSE Append(data, [ customer_id |-> t.CustomerID,
                                       total_spent |-> F(0),
                                       purchase_count |-> 0,
                                       products |-> { } ])
    IN  [ k \in 1..Len(started) |->
            IF started[k].customer_id = t.CustomerID
            THEN [ started[k] EXCEPT
                     !.total_spent = FAdd(@, amount),
                     !.purchase_count =
                         Cardinality(started[k].products \cup { t.ProductName }),
                     !.products = @ \cup { t.ProductName } ]
            ELSE started[k] ]

\* one pass of the loop over the transactions: customer_data after the
\* record t, as the dict's items in insertion order
AddToCustomer(data, t) ==
    LET amount == FMul(t.Quantity, t.UnitPrice)
        known == \E k \in 1..Len(data) : data[k].customer_id = t.CustomerID
        started == IF known THEN data
                   ELSE Append(data, [ customer_id |-> t.CustomerID,
                                       total_spent |-> F(0),
                                       purchase_count |-> 0,
                                       products |-> { } ])
    IN  [ k \in 1..Len(started) |->
            IF started[k].customer_id = t.CustomerID
            THEN [ started[k] EXCEPT !.total_spent = FAdd(@, amount),
                                     !.purchase_count = @ + 1,
                                     !.products = @ \cup { t.ProductName } ]
            ELSE started[k] ]

RECURSIVE CustomerDataFrom(_, _, _)
CustomerDataFrom(ts, i, data) ==
    IF i > Len(ts) THEN data
    ELSE CustomerDataFrom(ts, i + 1, AddToCustomer(data, ts[i]))

\* mutant of RoundedCents: the average is truncated, not rounded
TruncatedCents(num, den) == (100 * num) \div den

\* round(num / den, 2), in hundredths: to the nearest hundredth, a tie to
\* the even one.  An exact tie needs den to be a multiple of 8; up to
\* den = 39 a tie is a binary fraction and the binary floating-point
\* quotient rounds to the same hundredth as the exact one.
RoundedCents(num, den) ==
    LET q == (100 * num) \div den
        r == (100 * num) % den
    IN  IF 2 * r < den THEN q
        ELSE IF 2 * r > den THEN q + 1
             ELSE IF q % 2 = 0 THEN q ELSE q + 1

\* round(total_spent / purchase_count if purchase_count > 0 else 0, 2); a
\* total below 1.0 is a few units of 2^-53 and rounds to 0.0
AvgOrderValue(total_spent, purchase_count) ==
    IF purchase_count > 0
    THEN RoundedCents(total_spent.v, purchase_count)
    ELSE 0

\* sorted(list(data['products'])): the strings of a set in ascending order
RECURSIVE SortedStrings(_)
SortedStrings(S) ==
    IF S = { } THEN << >>
    ELSE LET least == CHOOSE x \in S : \A y \in S \ { x } : StrLess(x, y)
         IN  << least >> \o SortedStrings(S \ { least })

\* key=lambda x: x[1]['total_spent'], reverse=True
SpendsMore(e, f) == FGt(e.total_spent, f.total_spent)

\* the returned dict of customer_analysis, in iteration order
CustomerAnalysisResult(ts) ==
    LET data == CustomerDataFrom(ts, 1, << >>)
        result == [ k \in 1..Len(data) |->
                      [ customer_id |-> data[k].customer_id,
                        total_spent |-> data[k].total_spent,
                        purchase_count |-> data[k].purchase_count,
                        avg_order_value |->
                            AvgOrderValue(data[k].total_spent,
                                          data[k].purchase_count),
                        products_bought |-> SortedStrings(data[k].products) ] ]
    IN  StableSorted(result, [ i, j \in 1..Len(result) |->
                                 SpendsMore(result[i], result[j]) ])

C2 == <<"C", "2">>

\* validated records of three customers and of four products whose names
\* sort by code point ("B" < "a" < "ab" < "b")
CustomerPool ==
    { Sale(<<"b">>, 1, F(1), C1, <<"d">>, <<"A">>),
      Sale(<<"B">>, 1, F(1), C1, <<"d">>, <<"A">>),
      Sale(<<"a">>, 1, F(2), X1, <<"d">>, <<"A">>),
      Sale(<<"a", "b">>, 1, F(1), X1, <<"d">>, <<"A">>),
      Sale(<<"a">>, 1, F(1), X1, <<"d">>, <<"A">>),
      Sale(<<"B">>, 3, F(1), C2, <<"d">>, <<"A">>) }

InitCustomer ==
    /\ raw_lines = << >>
    /\ transactions = << >>
    /\ pc = "filtered"
    /\ region = None
    /\ min_amount = None
    /\ max_amount = None
    /\ valid_transactions \in SeqsUpTo(CustomerPool, MaxCustomers)
    /\ invalid_count = 0
    /\ filter_summary = NoSummary
    /\ sorted_result = << >>
    /\ NothingAnalysed
    /\ product_mapping = << >>

\* one call customer_analysis(valid_transactions)
CustomerAnalysis ==
    /\ pc \in { "filtered", "analysed" }
    /\ customer_data' = CustomerAnalysisResult(valid_transactions)
    /\ pc' = "analysed"
    /\ called' = called \cup { "customer_analysis" }
    /\ UNCHANGED << input_vars, sorted_result, total_revenue, top_products,
                    top_n, daily_data, peak_day, low_products, low_threshold,
                    enrich_vars, run_vars >>

NextCustomer == CustomerAnalysis

SpecCustomer == InitCustomer /\ [][NextCustomer]_vars

(***************************************************************************)
(* Vocabulary of the claims about customer_analysis.                       *)
(***************************************************************************)
Customers(ts) == { ts[i].CustomerID : i \in 1..Len(ts) }

OfCustomer(ts, id) == SelectSeq(ts, LAMBDA t : t.CustomerID = id)

SpentBy(ts, id) == RevenueOf(OfCustomer(ts, id))

FirstBought(ts, id) ==
    CHOOSE i \in 1..Len(ts) :
        /\ ts[i].CustomerID = id
        /\ \A j \in 1..(i - 1) : ts[j].CustomerID # id

\* a, in hundredths, is total / count rounded to 2 decimals
IsRoundedQuotient(a, total, count) ==
    LET diff == a * count - 100 * total
    IN  2 * (IF diff < 0 THEN -diff ELSE diff) <= count

\* C15: customer_analysis returns one entry per CustomerID with total_spent,
\* purchase_count, avg_order_value = total_spent / purchase_count rounded to
\* 2 decimals and products_bought = the customer's distinct ProductName
\* values in ascending order; the entries iterate by total_spent
\* descending, equal totals in order of first encounter
C15_CustomerAnalysis ==
    Has("customer_analysis") =>
        LET ts == valid_transactions
        IN  /\ { customer_data[k].customer_id : k \in 1..Len(customer_data) }
                  = Customers(ts)
            /\ Len(customer_data) = Cardinality(Customers(ts))
            /\ \A k \in 1..Len(customer_data) :
                  LET e == customer_data[k]
                      own == OfCustomer(ts, e.customer_id)
                  IN  /\ e.total_spent = SpentBy(ts, e.customer_id)
                      /\ e.purchase_count = Len(own)
                      /\ IsRoundedQuotient(e.avg_order_value, e.total_spent.v,
                                           e.purchase_count)
                      /\ { e.products_bought[i] : i \in 1..Len(e.products_bought) }
                            = ProductNames(own)
                      /\ \A i, j \in 1..Len(e.products_bought) :
                            i < j => StrLess(e.products_bought[i],
                                             e.products_bought[j])
            /\ \A j, k \in 1..Len(customer_data) :
                  j < k =>
                    \/ FGt(customer_data[j].total_spent,
                           customer_data[k].total_spent)
                    \/ /\ customer_data[j].total_spent
                            = customer_data[k].total_spent
                       /\ FirstBought(ts, customer_data[j].customer_id)
                            < FirstBought(ts, customer_data[k].customer_id)

\* the customer met last spent most and comes first, the other two spent
\* the same and keep their order, and one of them bought "b" before "B"
C15_Witness ==
    /\ Has("customer_analysis")
    /\ Len(valid_transactions) = 4
    /\ Len(customer_data) = 3
    /\ customer_data[1].customer_id = valid_transactions[4].CustomerID
    /\ customer_data[2].total_spent = customer_data[3].total_spent
    /\ valid_transactions[1].ProductName = <<"b">>
    /\ customer_data[2].products_bought = << <<"B">>, <<"b">> >>

(***************************************************************************)
(* The seven analysis functions on one input, called in any order and any  *)
(* number of times.                                                        *)
(***************************************************************************)
MaxAgg == 3          \* longest record sequence given to all seven functions

\* validated records of two regions, customers, dates and products, grouped
\* differently by each; one price is 2^-53 (1.1102230246251565e-16)
AggPool ==
    { Sale(<<"a">>, 1, F(1), C1, <<"2">>, <<"B">>),
      Sale(<<"b">>, 1, Ulps(1), X1, <<"9">>, <<"A">>),
      Sale(<<"a">>, 2, F(1), X1, <<"2">>, <<"A">>) }

InitAgg ==
    /\ raw_lines = << >>
    /\ transactions = << >>
    /\ pc = "filtered"
    /\ region = None
    /\ min_amount = None
    /\ max_amount = None
    /\ valid_transactions \in SeqsUpTo(AggPool, MaxAgg)
    /\ invalid_count = 0
    /\ filter_summary = NoSummary
    /\ sorted_result = << >>
    /\ NothingAnalysed
    /\ product_mapping = << >>

\* one call calculate_total_revenue(valid_transactions)
CalcTotalRevenue ==
    /\ pc \in { "filtered", "analysed" }
    /\ total_revenue' = CalculateTotalRevenue(valid_transactions)
    /\ pc' = "analysed"
    /\ called' = called \cup { "calculate_total_revenue" }
    /\ UNCHANGED << input_vars, sorted_result, top_products, top_n,
                    customer_data, daily_data, peak_day, low_products,
                    low_threshold, enrich_vars, run_vars >>

NextAgg ==
    \/ CalcTotalRevenue
    \/ RegionWiseSales
    \/ \E n \in 0..MaxN : TopSellingProducts(n)
    \/ CustomerAnalysis
    \/ DailySalesTrend
    \/ FindPeakSalesDay
    \/ LowPerformingProducts(DefaultThreshold)

SpecAgg == InitAgg /\ [][NextAgg]_vars

(***************************************************************************)
(* Vocabulary of the claims about all seven functions.                     *)
(***************************************************************************)
Aggregators ==
    { "calculate_total_revenue", "region_wise_sales", "top_selling_products",
      "customer_analysis", "daily_sales_trend", "find_peak_sales_day",
      "low_performing_products" }

\* sum(...) of a sequence of floats: added from the left, starting at 0
FloatSum(xs) ==
    LET acc[i \in 0..Len(xs)] ==
            IF i = 0 THEN F(0) ELSE FAdd(acc[i - 1], xs[i])
    IN  acc[Len(xs)]

SumOfRegions == FloatSum([ k \in 1..Len(sorted_result) |-> sorted_result[k].total_sales ])
SumOfCustomers == FloatSum([ k \in 1..Len(customer_data) |-> customer_data[k].total_spent ])
SumOfDays == FloatSum([ k \in 1..Len(daily_data) |-> daily_data[k].revenue ])
SumOfProducts == FloatSum([ k \in 1..Len(top_products) |-> top_products[k][3] ])

AllProductsReturned ==
    /\ Has("top_selling_products")
    /\ top_n >= Cardinality(ProductNames(valid_transactions))

\* the sums that have to agree with calculate_total_revenue
ComparableSums ==
    (IF Has("region_wise_sales") THEN { SumOfRegions } ELSE { })
        \cup (IF Has("customer_analysis") THEN { SumOfCustomers } ELSE { })
        \cup (IF Has("daily_sales_trend") THEN { SumOfDays } ELSE { })
        \cup (IF AllProductsReturned THEN { SumOfProducts } ELSE { })

\* every amount of the input is a whole number
WholeAmounts(ts) == \A i \in 1..Len(ts) : ts[i].UnitPrice.ulps = 0

\* the distance of two floats with the same whole part, in units of 2^-53
UlpsApart(a, b) == IF a.ulps < b.ulps THEN b.ulps - a.ulps ELSE a.ulps - b.ulps

MaxEnrich == 3       \* longest record sequence given to enrich_sales_data

\* product_mapping is the dict of create_product_mapping, as its items in
\* insertion order: the key id with the entry's title, category, brand and
\* rating

\* numeric_id in product_mapping
InMapping(numeric_id, mapping) ==
    \E k \in 1..Len(mapping) : mapping[k].id = numeric_id

\* product_mapping[numeric_id]
Lookup(numeric_id, mapping) ==
    mapping[CHOOSE k \in 1..Len(mapping) : mapping[k].id = numeric_id]

\* mutant of NumericId: the whole ProductID is converted, prefix included
NumericIdOfWhole(product_id_str) == ParseInt(product_id_str)

\* int(product_id_str[1:]); ok = FALSE when it raises ValueError
NumericId(product_id_str) ==
    ParseInt(IF product_id_str = << >> THEN << >> ELSE Tail(product_id_str))

\* the four fields of every branch that does not match
Unmatched ==
    [ API_Category |-> None, API_Brand |-> None, API_Rating |-> None,
      API_Match |-> FALSE ]

\* the try block of the loop body: the exception it ends with ("none" when
\* it runs to its end) and the fields it has assigned by then; a key the
\* entry lacks raises KeyError at the subscript that reads it
EnrichAttempt(transaction, mapping) ==
    LET numeric_id == NumericId(transaction.ProductID)
    IN  IF ~numeric_id.ok THEN [ exc |-> "ValueError", set |-> << >> ]
        ELSE IF InMapping(numeric_id.val, mapping)
        THEN LET product_info == Lookup(numeric_id.val, mapping)
             IN  IF "category" \notin DOMAIN product_info
                 THEN [ exc |-> "KeyError", set |-> << >> ]
                 ELSE IF "brand" \notin DOMAIN product_info
                 THEN [ exc |-> "KeyError",
                        set |-> [ API_Category |->
                                      Some(product_info.category) ] ]
                 ELSE IF "rating" \notin DOMAIN product_info
                 THEN [ exc |-> "KeyError",
                        set |-> [ API_Category |->
                                      Some(product_info.category),
                                  API_Brand |-> Some(product_info.brand) ] ]
                 ELSE [ exc |-> "none",
                        set |-> [ API_Category |->
                                      Some(product_info.category),
                                  API_Brand |-> Some(product_info.brand),
                                  API_Rating |-> Some(product_info.rating),
                                  API_Match |-> TRUE ] ]
        ELSE [ exc |-> "none", set |-> Unmatched ]

\* mutant of Caught: the handler of Exception is missing
CaughtAsValueError(exc) == exc \in { "ValueError", "IndexError" }

\* except (ValueError, IndexError) and except Exception: every exception
\* of the try block is caught by one of the two
Caught(exc) ==
    \/ exc \in { "ValueError", "IndexError" }
    \/ exc \in { "ValueError", "IndexError", "KeyError", "TypeError" }

\* the exception that leaves the loop body, "none" when it is caught
Propagated(transaction, mapping) ==
    LET attempt == EnrichAttempt(transaction, mapping)
    IN  IF attempt.exc = "none" \/ Caught(attempt.exc) THEN "none"
        ELSE attempt.exc

\* the body of the loop: the copy of the transaction with its four new
\* fields (a field that is set is Some(value), None is None); both handlers
\* assign all four over what the try block had assigned
Enriched(transaction, mapping) ==
    LET attempt == EnrichAttempt(transaction, mapping)
        api == IF attempt.exc = "none" THEN attempt.set
               ELSE Unmatched @@ attempt.set
    IN  api @@ transaction

\* mutant of EnrichedFrom: a transaction that does not match is left out
RECURSIVE MatchedFrom(_, _, _, _)
MatchedFrom(ts, i, mapping, out) ==
    IF i > Len(ts) THEN out
    ELSE MatchedFrom(ts, i + 1, mapping,
                     IF Enriched(ts[i], mapping).API_Match
                     THEN Append(out, Enriched(ts[i], mapping))
                     ELSE out)

\* the loop over the transactions: enriched_transactions from the i-th on
RECURSIVE EnrichedFrom(_, _, _, _)
EnrichedFrom(ts, i, mapping, out) ==
    IF i > Len(ts) THEN out
    ELSE EnrichedFrom(ts, i + 1, mapping, Append(out, Enriched(ts[i], mapping)))

\* the returned list of enrich_sales_data(ts, mapping)
EnrichSalesDataResult(ts, mapping) == EnrichedFrom(ts, 1, mapping, << >>)

\* the exception that leaves enrich_sales_data(ts, mapping): that of the
\* first loop body that lets one out, "none" when the call returns
EnrichSalesDataRaises(ts, mapping) ==
    IF \A i \in 1..Len(ts) : Propagated(ts[i], mapping) = "none" THEN "none"
    ELSE Propagated(ts[CHOOSE i \in 1..Len(ts) :
                           /\ Propagated(ts[i], mapping) # "none"
                           /\ \A j \in 1..(i - 1) :
                                 Propagated(ts[j], mapping) = "none"],
                    mapping)

\* a validated record with the given ProductID
Bought(tid, pid) == Rec(tid, pid, 1, F(1), C1, <<"A">>)

T2 == <<"T", "2">>

\* validated records whose ProductID has a suffix that is a key (5, also
\* written " 5" and "05"), an integer that may be no key (7), not an
\* integer ("X"), or empty
EnrichPool ==
    { Bought(T1, <<"P", "5">>),
      Bought(T2, <<"P", "5">>),
      Bought(T1, <<"P", "7">>),
      Bought(T1, <<"P", " ", "5">>),
      Bought(T1, <<"P", "0", "5">>),
      Bought(T1, <<"P", "X">>),
      Bought(T1, <<"P">>) }

Entry(id, title, category, brand, rating) ==
    [ id |-> id, title |-> title, category |-> category, brand |-> brand,
      rating |-> rating ]

\* the empty mapping, one product, two products
MappingPool ==
    { << >>,
      << Entry(5, <<"m">>, <<"c">>, <<"L">>, F(4)) >>,
      << Entry(7, <<"k">>, << >>, <<"K">>, F(3)),
         Entry(5, <<"m">>, <<"c">>, <<"L">>, F(4)) >> }

InitEnrich ==
    /\ raw_lines = << >>
    /\ transactions = << >>
    /\ pc = "filtered"
    /\ region = None
    /\ min_amount = None
    /\ max_amount = None
    /\ valid_transactions \in SeqsUpTo(EnrichPool, MaxEnrich)
    /\ invalid_count = 0
    /\ filter_summary = NoSummary
    /\ sorted_result = << >>
    /\ NothingAnalysed
    /\ product_mapping \in MappingPool

\* one call enrich_sales_data(valid_transactions, product_mapping)
EnrichSalesData ==
    /\ pc = "filtered"
    /\ raised' = EnrichSalesDataRaises(valid_transactions, product_mapping)
    /\ enriched_transactions' =
          IF raised' = "none"
          THEN EnrichSalesDataResult(valid_transactions, product_mapping)
          ELSE enriched_transactions
    /\ pc' = "enriched"
    /\ UNCHANGED << input_vars, sorted_result, total_revenue, top_products,
                    top_n, customer_data, daily_data, peak_day, low_products,
                    low_threshold, called, product_mapping, call_log,
                    api_products, fetch_status, saved_file >>

NextEnrich == EnrichSalesData

SpecEnrich == InitEnrich /\ [][NextEnrich]_vars

(***************************************************************************)
(* Vocabulary of the claims about enrich_sales_data.                       *)
(***************************************************************************)
EnrichedReturned == pc = "enriched"

ApiFields == { "API_Category", "API_Brand", "API_Rating", "API_Match" }

\* the ProductID without its first character is an integer and a key
SuffixIsKey(t) ==
    /\ t.ProductID # << >>
    /\ ParseInt(Tail(t.ProductID)).ok
    /\ \E k \in 1..Len(product_mapping) :
          product_mapping[k].id = ParseInt(Tail(t.ProductID)).val

EntryOf(t) ==
    product_mapping[CHOOSE k \in 1..Len(product_mapping) :
                        product_mapping[k].id = ParseInt(Tail(t.ProductID)).val]

\* C19: enrich_sales_data returns as many records as it was given, the
\* i-th with the eight original field values of the i-th input, and with
\* an empty mapping every output has API_Match = False
C19_EnrichmentKeepsRecords ==
    EnrichedReturned =>
        /\ Len(enriched_transactions) = Len(valid_transactions)
        /\ \A i \in 1..Len(enriched_transactions) :
              /\ DOMAIN enriched_transactions[i] = FieldNames \cup ApiFields
              /\ \A f \in FieldNames :
                    enriched_transactions[i][f] = valid_transactions[i][f]
        /\ product_mapping = << >> =>
              \A i \in 1..Len(enriched_transactions) :
                  enriched_transactions[i].API_Match = FALSE

\* with the empty mapping, three different records come back in their order
C19_Witness ==
    /\ EnrichedReturned
    /\ product_mapping = << >>
    /\ Len(enriched_transactions) = 3
    /\ enriched_transactions[1].ProductID = <<"P", "5">>
    /\ enriched_transactions[2].ProductID = <<"P", "X">>
    /\ enriched_transactions[3].TransactionID = T2

\* C20: a transaction gets API_Match = True and the category, brand and
\* rating of the mapping iff its ProductID without the first character
\* parses as an integer that is a key of the mapping; otherwise it gets
\* API_Match = False and None for the three
C20_MatchIffSuffixIsKey ==
    EnrichedReturned =>
        \A i \in 1..Len(enriched_transactions) :
            LET t == valid_transactions[i]
                e == enriched_transactions[i]
            IN  IF SuffixIsKey(t)
                THEN /\ e.API_Match = TRUE
                     /\ e.API_Category = Some(EntryOf(t).category)
                     /\ e.API_Brand = Some(EntryOf(t).brand)
                     /\ e.API_Rating = Some(EntryOf(t).rating)
                ELSE /\ e.API_Match = FALSE
                     /\ e.API_Category = None
                     /\ e.API_Brand = None
                     /\ e.API_Rating = None

\* one call meets a match ("P 5" with key 5), a suffix that is no integer
\* and an empty suffix
C20_Witness ==
    /\ EnrichedReturned
    /\ Len(enriched_transactions) = 3
    /\ enriched_transactions[1].ProductID = <<"P", " ", "5">>
    /\ enriched_transactions[1].API_Match = TRUE
    /\ enriched_transactions[1].API_Category = Some(<<"c">>)
    /\ enriched_transactions[2].ProductID = <<"P", "X">>
    /\ enriched_transactions[2].API_Match = FALSE
    /\ enriched_transactions[3].ProductID = <<"P">>
    /\ enriched_transactions[3].API_Rating = None


(***************************************************************************)
(* enrich_sales_data with any mapping: entries may lack category, brand    *)
(* or rating                                                               *)
(***************************************************************************)
\* mappings with key 5 whose entry lacks one key, two keys or all three
PartialMappingPool ==
    { << [ id |-> 5, title |-> <<"m">>, brand |-> <<"L">>,
           rating |-> F(4) ] >>,
      << [ id |-> 5, title |-> <<"m">>, category |-> <<"c">>,
           rating |-> F(4) ] >>,
      << [ id |-> 5, title |-> <<"m">>, category |-> <<"c">>,
           brand |-> <<"L">> ] >>,
      << [ id |-> 5, title |-> <<"m">> ] >>,
      << Entry(7, <<"k">>, << >>, <<"K">>, F(3)),
         [ id |-> 5, title |-> <<"m">>, category |-> <<"c">> ] >> }

InitEnrichAny ==
    /\ raw_lines = << >>
    /\ transactions = << >>
    /\ pc = "filtered"
    /\ region = None
    /\ min_amount = None
    /\ max_amount = None
    /\ valid_transactions \in SeqsUpTo(EnrichPool, MaxEnrich)
    /\ invalid_count = 0
    /\ filter_summary = NoSummary
    /\ sorted_result = << >>
    /\ NothingAnalysed
    /\ product_mapping \in MappingPool \cup PartialMappingPool

SpecEnrichAny == InitEnrichAny /\ [][NextEnrich]_vars

\* C21: enrich_sales_data raises nothing, whatever the cleaned records and
\* the mapping (entries lacking category, brand or rating included); it
\* returns one complete record per input, and a record with API_Match =
\* False has None for API_Category, API_Brand and API_Rating
C21_EnrichmentNeverRaises ==
    EnrichedReturned =>
        /\ raised = "none"
        /\ Len(enriched_transactions) = Len(valid_transactions)
        /\ \A i \in 1..Len(enriched_transactions) :
              LET e == enriched_transactions[i]
              IN  /\ DOMAIN e = FieldNames \cup ApiFields
                  /\ e.API_Match \in BOOLEAN
                  /\ e.API_Match = FALSE =>
                        /\ e.API_Category = None
                        /\ e.API_Brand = None
                        /\ e.API_Rating = None

\* one call meets an entry without its rating (category and brand were
\* already assigned when the KeyError came), a suffix that is no integer
\* and an integer that is no key
C21_Witness ==
    /\ EnrichedReturned
    /\ Len(product_mapping) = 1
    /\ DOMAIN product_mapping[1] = { "id", "title", "category", "brand" }
    /\ Len(enriched_transactions) = 3
    /\ valid_transactions[1].ProductID = <<"P", "5">>
    /\ enriched_transactions[1].API_Match = FALSE
    /\ enriched_transactions[1].API_Category = None
    /\ valid_transactions[2].ProductID = <<"P", "X">>
    /\ valid_transactions[3].ProductID = <<"P", "7">>


\* C22: on the empty record sequence every one of the seven functions
\* returns its empty or zero result: total revenue 0, no region, no
\* customer, no day, no top product, no low product, and the peak
\* (None, 0, 0); no quotient is computed
C22_EmptyInputEmptyResults ==
    valid_transactions = << >> =>
        /\ Has("calculate_total_revenue") => total_revenue = F(0)
        /\ Has("region_wise_sales") => sorted_result = << >>
        /\ Has("customer_analysis") => customer_data = << >>
        /\ Has("daily_sales_trend") => daily_data = << >>
        /\ Has("top_selling_products") => top_products = << >>
        /\ Has("low_performing_products") => low_products = << >>
        /\ Has("find_peak_sales_day") =>
              peak_day = [ date |-> None, revenue |-> F(0),
                           transaction_count |-> 0 ]

\* all seven functions have returned on the empty sequence
C22_Witness ==
    /\ valid_transactions = << >>
    /\ called = Aggregators
    /\ top_n = MaxN
    /\ low_threshold = DefaultThreshold


(***************************************************************************)
(* fetch_all_products and create_product_mapping (utils/api_handler.py)    *)
(***************************************************************************)
MaxItems == 2        \* longest 'products' list of a response

\* None as a value stored in a dict
NoneValue == "None"

\* product.get(key): None when the key is absent
Get(product, key) == IF key \in DOMAIN product THEN product[key] ELSE NoneValue

\* an element of data['products'] that is a dict; every other element has
\* no attribute get
IsDict(product) == "not_a_dict" \notin DOMAIN product

\* product_entry, the dict built for one product
ProductEntry(product) ==
    [ id |-> Get(product, "id"), title |-> Get(product, "title"),
      category |-> Get(product, "category"), brand |-> Get(product, "brand"),
      price |-> Get(product, "price"), rating |-> Get(product, "rating") ]

\* the loop over api_products from the i-th on: the exception that ends it
\* ("none" when it runs to its end) and the list products, which is the
\* function's own and keeps what was appended before the exception
RECURSIVE ProductsFrom(_, _, _)
ProductsFrom(items, i, products) ==
    IF i > Len(items) THEN [ exc |-> "none", products |-> products ]
    ELSE IF ~IsDict(items[i])
         THEN [ exc |-> "AttributeError", products |-> products ]
         ELSE ProductsFrom(items, i + 1,
                           Append(products, ProductEntry(items[i])))

HTTP_OK == 200

\* the try block: the exception that ends it, the message printed when it
\* ends without one, and products
FetchAttempt(response) ==
    IF response.exc # "none"
    THEN [ exc |-> response.exc, message |-> "none", products |-> << >> ]
    ELSE IF response.status_code # HTTP_OK
    THEN [ exc |-> "none", message |-> "Error: API returned status code",
           products |-> << >> ]
    ELSE IF response.json_exc # "none"
    THEN [ exc |-> response.json_exc, message |-> "none", products |-> << >> ]
    ELSE IF response.data_type = "NoneType"
    THEN [ exc |-> "TypeError", message |-> "none", products |-> << >> ]
    ELSE IF ~response.has_products
    THEN [ exc |-> "none", message |-> "Error: Products key not found",
           products |-> << >> ]
    ELSE IF response.products_type # "list"
    THEN [ exc |-> "TypeError", message |-> "none", products |-> << >> ]
    ELSE LET loop == ProductsFrom(response.products, 1, << >>)
         IN  [ exc |-> loop.exc,
               message |-> IF loop.exc = "none" THEN "Successfully fetched"
                           ELSE "none",
               products |-> loop.products ]

\* the four except clauses in their order: the message of the first that
\* matches; Timeout and ConnectionError are RequestExceptions, and every
\* exception is an Exception
HandlerMessage(exc) ==
    IF exc = "ConnectionError" THEN "Error: Failed to connect to API"
    ELSE IF exc = "Timeout" THEN "Error: API request timed out"
    ELSE IF exc = "RequestException" THEN "Error: API request failed"
    ELSE "Error: Unexpected error while fetching products"

\* fetch_all_products(): the returned list products and the status message;
\* no handler touches products
FetchAllProductsResult(response) ==
    LET attempt == FetchAttempt(response)
    IN  [ products |-> attempt.products,
          status |-> IF attempt.exc = "none" THEN attempt.message
                     ELSE HandlerMessage(attempt.exc) ]

\* one element of data['products']
Product(id, title, category, brand, rating) ==
    [ id |-> id, title |-> title, category |-> category, brand |-> brand,
      price |-> F(1), rating |-> rating ]

NotADict == [ not_a_dict |-> TRUE ]

\* elements of data['products']: complete dicts, a dict with two keys, and
\* an element that is no dict (a JSON null or number)
ItemPool ==
    { Product(5, <<"m">>, <<"c">>, <<"L">>, F(4)),
      Product(7, <<"k">>, << >>, <<"K">>, F(3)),
      [ id |-> 5, title |-> <<"m">> ],
      NotADict }

\* requests.get raises exc
Failing(exc) ==
    [ exc |-> exc, status_code |-> 0, json_exc |-> "none",
      data_type |-> "dict", has_products |-> FALSE, products_type |-> "list",
      products |-> << >> ]

\* requests.get returns a response with this status code whose json() is a
\* dict with the key 'products' holding this list
Answering(status_code, products) ==
    [ exc |-> "none", status_code |-> status_code, json_exc |-> "none",
      data_type |-> "dict", has_products |-> TRUE, products_type |-> "list",
      products |-> products ]

\* what requests.get(api_url) can do: raise, or return a response that has
\* another status code, no JSON body, a body that is no dict, that lacks
\* 'products', whose 'products' is no list, or a list of products
ResponsePool ==
    { Failing(exc) : exc \in { "ConnectionError", "Timeout",
                               "RequestException", "KeyError" } }
    \cup { Answering(code, products) :
              code \in { HTTP_OK, 500 },
              products \in SeqsUpTo(ItemPool, MaxItems) }
    \cup { [ Answering(HTTP_OK, << >>) EXCEPT !.json_exc = "ValueError" ],
           [ Answering(HTTP_OK, << >>) EXCEPT !.data_type = "NoneType" ],
           [ Answering(HTTP_OK, << >>) EXCEPT !.has_products = FALSE ],
           [ Answering(HTTP_OK, << >>) EXCEPT !.products_type = "int" ] }

InitFetch ==
    /\ raw_lines = << >>
    /\ transactions = << >>
    /\ pc = "filtered"
    /\ region = None
    /\ min_amount = None
    /\ max_amount = None
    /\ valid_transactions \in SeqsUpTo(EnrichPool, 1)
    /\ invalid_count = 0
    /\ filter_summary = NoSummary
    /\ sorted_result = << >>
    /\ NothingAnalysed
    /\ product_mapping = << >>

\* one call fetch_all_products(), the API doing one of the things it can do
FetchAllProducts ==
    /\ pc = "filtered"
    /\ \E response \in ResponsePool :
          /\ api_products' = FetchAllProductsResult(response).products
          /\ fetch_status' = FetchAllProductsResult(response).status
    /\ raised' = "none"
    /\ pc' = "fetched"
    /\ UNCHANGED << input_vars, sorted_result, analysis_vars, enrich_vars,
                    call_log, saved_file >>

NextFetch == FetchAllProducts

SpecFetch == InitFetch /\ [][NextFetch]_vars

Fetched == pc = "fetched"

FetchFailed == fetch_status # "Successfully fetched"

\* C26: fetch_all_products returns the empty list whenever the fetch fails
\* (connection error, timeout, another status code than 200, no 'products'
\* key, any exception while the response is processed), and it lets no
\* exception out
C26_FetchFailureGivesEmptyList ==
    Fetched =>
        /\ raised = "none"
        /\ FetchFailed => api_products = << >>


(***************************************************************************)
(* save_enriched_data (utils/api_handler.py)                               *)
(***************************************************************************)
\* field_names; in the file a name is kept as one symbol
field_names ==
    << "TransactionID", "Date", "ProductID", "ProductName", "Quantity",
       "UnitPrice", "CustomerID", "Region", "API_Category", "API_Brand",
       "API_Rating", "API_Match" >>

\* header = '|'.join(field_names)
Header == Join([ k \in 1..Len(field_names) |-> << field_names[k] >> ], "|")

\* str(n) of an int
DecimalDigits == << "0", "1", "2", "3", "4", "5", "6", "7", "8", "9" >>

RECURSIVE NatStr(_)
NatStr(n) ==
    IF n < 10 THEN << DecimalDigits[n + 1] >>
    ELSE Append(NatStr(n \div 10), DecimalDigits[(n % 10) + 1])

IntStr(n) == IF n < 0 THEN << "-" >> \o NatStr(0 - n) ELSE NatStr(n)

\* str(x) of a float: "nan", and for a whole number below 1e16 its digits
\* and ".0"
FloatStr(x) ==
    IF x.nan THEN << "n", "a", "n" >> ELSE IntStr(x.v) \o << ".", "0" >>

\* str(True), str(False)
BoolStr(b) == IF b THEN << "T", "r", "u", "e" >> ELSE << "F", "a", "l", "s", "e" >>

\* mutant of Written: None is written as str(None)
WrittenWithNone(o) == IF o = None THEN << "N", "o", "n", "e" >> ELSE o[1]

\* if value is None: value = ''; o holds the str of a value that is not None
Written(o) == IF o = None THEN << >> ELSE o[1]

\* value_str for one field: transaction.get(field), '' when it is None, else
\* str(value)
ValueStr(transaction, field) ==
    IF field \notin DOMAIN transaction THEN << >>
    ELSE IF field = "Quantity" THEN IntStr(transaction[field])
    ELSE IF field = "UnitPrice" THEN FloatStr(transaction[field])
    ELSE IF field = "API_Match" THEN BoolStr(transaction[field])
    ELSE IF field = "API_Rating"
    THEN Written(IF transaction[field] = None THEN None
                 ELSE Some(FloatStr(transaction[field][1])))
    ELSE IF field \in { "API_Category", "API_Brand" }
    THEN Written(transaction[field])
    ELSE transaction[field]

\* row = '|'.join(row_values)
Row(transaction) ==
    Join([ k \in 1..Len(field_names) |-> ValueStr(transaction, field_names[k]) ],
         "|")

\* the lines of the file after save_enriched_data(enriched) has written it
SaveEnrichedDataResult(enriched) ==
    << Header >> \o [ i \in 1..Len(enriched) |-> Row(enriched[i]) ]

\* one call save_enriched_data(enriched_transactions, filename); when open()
\* raises IOError the handler prints a message and no file is written
SaveEnrichedData(opened) ==
    /\ pc = "enriched"
    /\ raised = "none"
    /\ saved_file' = IF opened THEN SaveEnrichedDataResult(enriched_transactions)
                     ELSE saved_file
    /\ raised' = "none"
    /\ pc' = "saved"
    /\ UNCHANGED << input_vars, sorted_result, analysis_vars, enrich_vars,
                    call_log, api_products, fetch_status >>

NextSave ==
    \/ EnrichSalesData
    \/ \E opened \in BOOLEAN : SaveEnrichedData(opened)

SpecSave == InitEnrich /\ [][NextSave]_vars

\* the file was written
Saved == pc = "saved" /\ saved_file # << >>

\* C25: save_enriched_data writes the header line and then one row per
\* enriched transaction, in order; a row has the twelve fields
\* TransactionID, Date, ProductID, ProductName, Quantity, UnitPrice,
\* CustomerID, Region, API_Category, API_Brand, API_Rating, API_Match in
\* this order, a None field as the empty string and API_Match as True or
\* False
C25_SavedFile ==
    Saved =>
        /\ Len(saved_file) = 1 + Len(enriched_transactions)
        /\ Split(saved_file[1], "|") =
              << <<"TransactionID">>, <<"Date">>, <<"ProductID">>,
                 <<"ProductName">>, <<"Quantity">>, <<"UnitPrice">>,
                 <<"CustomerID">>, <<"Region">>, <<"API_Category">>,
                 <<"API_Brand">>, <<"API_Rating">>, <<"API_Match">> >>
        /\ \A i \in 1..Len(enriched_transactions) :
              LET e == enriched_transactions[i]
                  fields == Split(saved_file[i + 1], "|")
              IN  /\ Len(fields) = 12
                  /\ fields[1] = e.TransactionID
                  /\ fields[2] = e.Date
                  /\ fields[3] = e.ProductID
                  /\ fields[4] = e.ProductName
                  /\ ParseInt(fields[5]) = [ ok |-> TRUE, val |-> e.Quantity ]
                  /\ fields[6] # << >>
                  /\ fields[7] = e.CustomerID
                  /\ fields[8] = e.Region
                  /\ fields[9] = IF e.API_Category = None THEN << >>
                                 ELSE e.API_Category[1]
                  /\ fields[10] = IF e.API_Brand = None THEN << >>
                                  ELSE e.API_Brand[1]
                  /\ (fields[11] = << >>) = (e.API_Rating = None)
                  /\ fields[12] = IF e.API_Match THEN <<"T", "r", "u", "e">>
                                  ELSE <<"F", "a", "l", "s", "e">>

\* a file of three rows: a match with its category, brand and rating, and
\* two records without a match
C25_Witness ==
    /\ Saved
    /\ Len(saved_file) = 4
    /\ enriched_transactions[1].API_Match = TRUE
    /\ Split(saved_file[2], "|")[9] = <<"c">>
    /\ enriched_transactions[2].API_Match = FALSE
    /\ Split(saved_file[3], "|")[11] = << >>
    /\ enriched_transactions[3].ProductID = <<"P">>


(***************************************************************************)
(* main (main.py): the run from reading the file to the closing banner     *)
(***************************************************************************)
\* product_mapping[product_id] = product_info: a new key goes to the end, a
\* key that is present keeps its place and gets the new entry
AddToMapping(mapping, product) ==
    LET entry == Entry(product.id, product.title, product.category,
                       product.brand, product.rating)
    IN  IF \E k \in 1..Len(mapping) : mapping[k].id = product.id
        THEN [ k \in 1..Len(mapping) |->
                 IF mapping[k].id = product.id THEN entry ELSE mapping[k] ]
        ELSE Append(mapping, entry)

\* the loop of create_product_mapping from the i-th product on
RECURSIVE MappingFrom(_, _, _)
MappingFrom(products, i, mapping) ==
    IF i > Len(products) THEN mapping
    ELSE MappingFrom(products, i + 1, AddToMapping(mapping, products[i]))

CreateProductMappingResult(products) == MappingFrom(products, 1, << >>)

\* lines of the data file: two records that pass the validation (regions N
\* and S), one that fails it, a line that does not parse, and a record
\* whose Quantity is too large for a float
MainLinePool ==
    { Join(GoodFields, "|"),
      Join(<< T1, <<"d">>, <<"P", "5">>, <<"m">>, <<"1">>, <<"1">>, C1,
              <<"S">> >>, "|"),
      LineWith(5, <<"-", "1">>),
      Join(SubSeq(GoodFields, 1, 7), "|"),
      LineWith(5, << DigitRun >>) }

\* what the user types for the region, the minimum and the maximum amount
RegionInputs == { << >>, <<"N">>, <<"Z">> }
MinInputs == { << >>, <<"2">>, <<"x">> }
MaxInputs == { << >>, <<"1">> }

\* what the API does during a run: no connection, one product, two products
MainResponsePool ==
    { Failing("ConnectionError"),
      Answering(HTTP_OK, << Product(5, <<"m">>, <<"c">>, <<"L">>, F(4)) >>),
      Answering(HTTP_OK, << Product(7, <<"k">>, << >>, <<"K">>, F(3)),
                            Product(5, <<"m">>, <<"c">>, <<"L">>, F(4)) >>) }

\* the except clause of main that an exception enters: the first of
\* FileNotFoundError, KeyError, ValueError, Exception that matches
HandlerOf(exc) ==
    IF exc \in { "FileNotFoundError", "KeyError", "ValueError" }
    THEN exc ELSE "Exception"

MainHandlers == { "FileNotFoundError", "KeyError", "ValueError", "Exception" }

\* the position after a step: the next one, or the handler of what it raised
After(exc, next) == IF exc = "none" THEN next ELSE HandlerOf(exc)

\* one entry of call_log: the function, the records it was called with
\* (for validate_and_filter: the records it returned), and whether the call
\* passes keyword arguments
Call(fn, records, keywords) ==
    [ fn |-> fn, records |-> records, keywords |-> keywords ]

InitMain ==
    /\ raw_lines = << >>
    /\ transactions = << >>
    /\ pc = "main"
    /\ region = None
    /\ min_amount = None
    /\ max_amount = None
    /\ valid_transactions = << >>
    /\ invalid_count = 0
    /\ filter_summary = NoSummary
    /\ sorted_result = << >>
    /\ NothingAnalysed
    /\ product_mapping = << >>

\* raw_lines = read_sales_data(data_file); a missing file gives [] as an
\* empty one does; if not raw_lines: return
MainRead ==
    /\ pc = "main"
    /\ \E lines \in SeqsUpTo(MainLinePool, MaxLines) :
          /\ raw_lines' = lines
          /\ pc' = IF lines = << >> THEN "returned" ELSE "read"
    /\ UNCHANGED << transactions, region, min_amount, max_amount,
                    valid_transactions, invalid_count, filter_summary,
                    sorted_result, analysis_vars, enrich_vars, run_vars >>

\* transactions = parse_transactions(raw_lines); if not transactions: return
MainParse ==
    /\ pc = "read"
    /\ transactions' = ParseTransactionsResult(raw_lines)
    /\ pc' = IF transactions' = << >> THEN "returned" ELSE "parsed by main"
    /\ UNCHANGED << raw_lines, region, min_amount, max_amount,
                    valid_transactions, invalid_count, filter_summary,
                    sorted_result, analysis_vars, enrich_vars, run_vars >>

\* the filter options: the regions, and the range of
\* amounts = [t['Quantity'] * t['UnitPrice'] for t in transactions]
MainShowOptions ==
    /\ pc = "parsed by main"
    /\ raised' = IF \E i \in 1..Len(transactions) :
                       AmountRaises(transactions[i]) # "none"
                 THEN "OverflowError" ELSE "none"
    /\ pc' = After(raised', "options")
    /\ UNCHANGED << input_vars, sorted_result, analysis_vars, enrich_vars,
                    call_log, api_products, fetch_status, saved_file >>

\* what a call of validate_and_filter by main does to the state
MainValidate(r, mn, mx, keywords) ==
    /\ raised' = ValidateAndFilterRaises(transactions, r, mn, mx)
    /\ IF raised' = "none"
       THEN LET res == ValidateAndFilterResult(transactions, r, mn, mx)
            IN  /\ valid_transactions' = res.valid_transactions
                /\ invalid_count' = res.invalid_count
                /\ filter_summary' = res.filter_summary
                /\ call_log' = Append(call_log,
                                      Call("validate_and_filter",
                                           res.valid_transactions, keywords))
       ELSE UNCHANGED << valid_transactions, invalid_count, filter_summary,
                         call_log >>
    /\ region' = r
    /\ min_amount' = mn
    /\ max_amount' = mx
    /\ pc' = After(raised', "validated")
    /\ UNCHANGED << raw_lines, transactions, sorted_result, analysis_vars,
                    enrich_vars, api_products, fetch_status, saved_file >>

\* float(text) if text else None, None again when float raises ValueError
AmountInput(text) ==
    IF text = << >> \/ ~ParseFloat(text).ok THEN None
    ELSE Some(ParseFloat(text).val)

\* filter_choice == 'y': the three inputs, then validate_and_filter with them
MainFilter(region_input, min_input, max_input) ==
    /\ pc = "options"
    /\ MainValidate(IF region_input = << >> THEN None ELSE Some(region_input),
                    AmountInput(min_input), AmountInput(max_input), TRUE)

\* mutant of MainNoFilter: filtered_transactions stays the parsed list
MainKeepParsed ==
    /\ pc = "options"
    /\ valid_transactions' = transactions
    /\ pc' = "validated"
    /\ UNCHANGED << raw_lines, transactions, region, min_amount, max_amount,
                    invalid_count, filter_summary, sorted_result,
                    analysis_vars, enrich_vars, run_vars >>

\* any other filter_choice: validate_and_filter(transactions)
MainNoFilter ==
    /\ pc = "options"
    /\ MainValidate(None, None, None, FALSE)

\* what every analysis step of main leaves alone
MainAnalysed(fn, keywords, next) ==
    /\ called' = called \cup { fn }
    /\ call_log' = Append(call_log, Call(fn, valid_transactions, keywords))
    /\ pc' = next
    /\ UNCHANGED << input_vars, enrich_vars, raised, api_products,
                    fetch_status, saved_file >>

MainTotalRevenue ==
    /\ pc = "validated"
    /\ total_revenue' = CalculateTotalRevenue(valid_transactions)
    /\ MainAnalysed("calculate_total_revenue", FALSE, "total")
    /\ UNCHANGED << sorted_result, top_products, top_n, customer_data,
                    daily_data, peak_day, low_products, low_threshold >>

MainRegionWise ==
    /\ pc = "total"
    /\ sorted_result' = RegionWiseSalesResult(valid_transactions)
    /\ MainAnalysed("region_wise_sales", FALSE, "regions")
    /\ UNCHANGED << total_revenue, top_products, top_n, customer_data,
                    daily_data, peak_day, low_products, low_threshold >>

MainTopProducts ==
    /\ pc = "regions"
    /\ top_products' = TopSellingProductsResult(valid_transactions, DefaultN)
    /\ top_n' = DefaultN
    /\ MainAnalysed("top_selling_products", TRUE, "top")
    /\ UNCHANGED << sorted_result, total_revenue, customer_data, daily_data,
                    peak_day, low_products, low_threshold >>

MainCustomers ==
    /\ pc = "top"
    /\ customer_data' = CustomerAnalysisResult(valid_transactions)
    /\ MainAnalysed("customer_analysis", FALSE, "customers")
    /\ UNCHANGED << sorted_result, total_revenue, top_products, top_n,
                    daily_data, peak_day, low_products, low_threshold >>

MainDaily ==
    /\ pc = "customers"
    /\ daily_data' = DailySalesTrendResult(valid_transactions)
    /\ MainAnalysed("daily_sales_trend", FALSE, "days")
    /\ UNCHANGED << sorted_result, total_revenue, top_products, top_n,
                    customer_data, peak_day, low_products, low_threshold >>

MainPeak ==
    /\ pc = "days"
    /\ peak_day' = FindPeakSalesDayResult(valid_transactions)
    /\ MainAnalysed("find_peak_sales_day", FALSE, "peak")
    /\ UNCHANGED << sorted_result, total_revenue, top_products, top_n,
                    customer_data, daily_data, low_products, low_threshold >>

MainLowProducts ==
    /\ pc = "peak"
    /\ low_products' =
          LowPerformingProductsResult(valid_transactions, DefaultThreshold)
    /\ low_threshold' = DefaultThreshold
    /\ MainAnalysed("low_performing_products", TRUE, "low")
    /\ UNCHANGED << sorted_result, total_revenue, top_products, top_n,
                    customer_data, daily_data, peak_day >>

\* api_products = fetch_all_products()
MainFetch ==
    /\ pc = "low"
    /\ \E response \in MainResponsePool :
          /\ api_products' = FetchAllProductsResult(response).products
          /\ fetch_status' = FetchAllProductsResult(response).status
    /\ pc' = "fetched by main"
    /\ UNCHANGED << input_vars, sorted_result, analysis_vars, enrich_vars,
                    raised, call_log, saved_file >>

\* product_mapping = create_product_mapping(api_products)
MainMapping ==
    /\ pc = "fetched by main"
    /\ product_mapping' = CreateProductMappingResult(api_products)
    /\ pc' = "mapped"
    /\ UNCHANGED << input_vars, sorted_result, analysis_vars,
                    enriched_transactions, run_vars >>

\* enriched_transactions = enrich_sales_data(filtered_transactions,
\* product_mapping), and the enrichment rate, 0 for no transaction
MainEnrich ==
    /\ pc = "mapped"
    /\ raised' = EnrichSalesDataRaises(valid_transactions, product_mapping)
    /\ enriched_transactions' =
          IF raised' = "none"
          THEN EnrichSalesDataResult(valid_transactions, product_mapping)
          ELSE enriched_transactions
    /\ call_log' = Append(call_log,
                          Call("enrich_sales_data", valid_transactions, FALSE))
    /\ pc' = After(raised', "enriched by main")
    /\ UNCHANGED << input_vars, sorted_result, analysis_vars, product_mapping,
                    api_products, fetch_status, saved_file >>

\* save_enriched_data(enriched_transactions, enriched_output_file)
MainSave ==
    /\ pc = "enriched by main"
    /\ \E opened \in BOOLEAN :
          saved_file' = IF opened
                        THEN SaveEnrichedDataResult(enriched_transactions)
                        ELSE saved_file
    /\ pc' = "saved by main"
    /\ UNCHANGED << input_vars, sorted_result, analysis_vars, enrich_vars,
                    raised, call_log, api_products, fetch_status >>

\* generate_sales_report(...), which catches what it raises, and the lines
\* "[11/13] Process Complete!" to "Unique Customers"
MainComplete ==
    /\ pc = "saved by main"
    /\ pc' = "complete"
    /\ UNCHANGED << input_vars, sorted_result, analysis_vars, enrich_vars,
                    run_vars >>

\* the "Date Range" line: min(...) and max(...) over the Date of
\* filtered_transactions raise ValueError on an empty sequence
MainDateRange ==
    /\ pc = "complete"
    /\ raised' = IF valid_transactions = << >> THEN "ValueError" ELSE "none"
    /\ pc' = After(raised', "summarised")
    /\ UNCHANGED << input_vars, sorted_result, analysis_vars, enrich_vars,
                    call_log, api_products, fetch_status, saved_file >>

\* "Thank you for using Sales Analytics System!"
MainBanner ==
    /\ pc = "summarised"
    /\ pc' = "done"
    /\ UNCHANGED << input_vars, sorted_result, analysis_vars, enrich_vars,
                    run_vars >>

NextMain ==
    \/ MainRead
    \/ MainParse
    \/ MainShowOptions
    \/ \E region_input \in RegionInputs, min_input \in MinInputs,
          max_input \in MaxInputs :
          MainFilter(region_input, min_input, max_input)
    \/ MainNoFilter
    \/ MainTotalRevenue
    \/ MainRegionWise
    \/ MainTopProducts
    \/ MainCustomers
    \/ MainDaily
    \/ MainPeak
    \/ MainLowProducts
    \/ MainFetch
    \/ MainMapping
    \/ MainEnrich
    \/ MainSave
    \/ MainComplete
    \/ MainDateRange
    \/ MainBanner

SpecMain == InitMain /\ [][NextMain]_vars

\* C23: in a run of main no analysis function and no enrich_sales_data call
\* starts before validate_and_filter has returned, on the 'y' branch and on
\* the other; each of them is given the record sequence that
\* validate_and_filter returned
C23_AnalysisAfterValidation ==
    \A i \in 1..Len(call_log) :
        call_log[i].fn \in Aggregators \cup { "enrich_sales_data" } =>
            /\ call_log[1].fn = "validate_and_filter"
            /\ call_log[i].records = call_log[1].records
            /\ call_log[i].records = valid_transactions

\* a run with the region filter N that has called all seven functions and
\* the enrichment on the one record that is left of two
C23_Witness ==
    /\ Len(call_log) = 9
    /\ call_log[9].fn = "enrich_sales_data"
    /\ called = Aggregators
    /\ call_log[1].keywords
    /\ region = Some(<<"N">>)
    /\ Len(transactions) = 2
    /\ Len(call_log[9].records) = 1

\* main is in one of its except clauses
InHandler == pc \in MainHandlers

\* C27: a run of main in which the file is read, at least one line parses,
\* the API fetch and the file writes succeed reaches the 'Process Complete'
\* summary and the closing banner without entering an except clause,
\* whatever the validation and the filters leave, zero records included
C27_MainReachesBanner ==
    ( /\ transactions # << >>
      /\ fetch_status = "Successfully fetched"
      /\ saved_file # << >> ) => ~InHandler


(***************************************************************************)
(* The pipeline parse_transactions -> validate_and_filter -> the seven     *)
(* analysis functions and enrich_sales_data, on any lines and filters      *)
(***************************************************************************)
InitPipeline ==
    /\ raw_lines \in SeqsUpTo(MainLinePool, MaxLines)
    /\ transactions = << >>
    /\ pc = "raw"
    /\ region = None
    /\ min_amount = None
    /\ max_amount = None
    /\ valid_transactions = << >>
    /\ invalid_count = 0
    /\ filter_summary = NoSummary
    /\ sorted_result = << >>
    /\ NothingAnalysed
    /\ product_mapping \in { m \in MappingPool : Len(m) = 2 }

NextPipeline ==
    \/ ParseTransactions
    \/ \E r \in RegionArgs, mn \in AmountArgs, mx \in AmountArgs :
          ValidateAndFilter(r, mn, mx)
    \/ CalcTotalRevenue
    \/ RegionWiseSales
    \/ TopSellingProducts(DefaultN)
    \/ CustomerAnalysis
    \/ DailySalesTrend
    \/ FindPeakSalesDay
    \/ LowPerformingProducts(DefaultThreshold)
    \/ EnrichSalesData

SpecPipeline == InitPipeline /\ [][NextPipeline]_vars

\* C24: whatever the input lines and the filter arguments, no exception
\* leaves parse_transactions, validate_and_filter, the seven analysis
\* functions or enrich_sales_data; a total failure shows only as an empty
\* cleaned sequence
C24_PipelineNeverRaises == raised = "none"


(***************************************************************************)
(* find_peak_sales_day on what validate_and_filter returns                 *)
(***************************************************************************)
NextCleaned ==
    \/ \E r \in RegionArgs, mn \in AmountArgs, mx \in AmountArgs :
          ValidateAndFilter(r, mn, mx)
    \/ FindPeakSalesDay

SpecCleaned == Init /\ [][NextCleaned]_vars

\* C28: on a non-empty sequence returned by validate_and_filter,
\* find_peak_sales_day returns a date that is not None and is a key of
\* daily_sales_trend, a revenue above 0 and a count of at least 1; it returns
\* (None, 0, 0) only on the empty sequence
C28_PeakOfCleanedRecords ==
    Has("find_peak_sales_day") =>
        IF valid_transactions = << >>
        THEN peak_day = [ date |-> None, revenue |-> F(0),
                          transaction_count |-> 0 ]
        ELSE /\ peak_day.date # None
             /\ \E k \in 1..Len(DailySalesTrendResult(valid_transactions)) :
                   DailySalesTrendResult(valid_transactions)[k].date
                      = peak_day.date[1]
             /\ FGt(peak_day.revenue, F(0))
             /\ peak_day.transaction_count >= 1


\* the sum of one integer field over the entries of a returned dict
RECURSIVE CountSum(_, _)
CountSum(entries, field) ==
    IF entries = << >> THEN 0
    ELSE entries[1][field] + CountSum(Tail(entries), field)

\* C29: the transaction_count values of region_wise_sales, the
\* purchase_count values of customer_analysis and the transaction_count
\* values of daily_sales_trend each add up to the number of input records
C29_CountsAddUp ==
    /\ Has("region_wise_sales") =>
          CountSum(sorted_result, "transaction_count")
             = Len(valid_transactions)
    /\ Has("customer_analysis") =>
          CountSum(customer_data, "purchase_count") = Len(valid_transactions)
    /\ Has("daily_sales_trend") =>
          CountSum(daily_data, "transaction_count") = Len(valid_transactions)

\* all three have returned on three records of two regions, two customers
\* and two dates, one customer having bought the same product twice
C29_Witness ==
    /\ { "region_wise_sales", "customer_analysis", "daily_sales_trend" }
          \subseteq called
    /\ Len(valid_transactions) = 3
    /\ valid_transactions[1] = valid_transactions[2]
    /\ Len(sorted_result) = 2
    /\ Len(customer_data) = 2
    /\ Len(daily_data) = 2


\* sub is full with some elements left out, the others in their order
RECURSIVE IsSubsequence(_, _)
IsSubsequence(sub, full) ==
    IF sub = << >> THEN TRUE
    ELSE IF full = << >> THEN FALSE
    ELSE IF Head(sub) = Head(full)
         THEN IsSubsequence(Tail(sub), Tail(full))
         ELSE IsSubsequence(sub, Tail(full))

\* C30: the list validate_and_filter returns is an order-preserving
\* subsequence of its input (nothing added, duplicated, reordered or
\* altered); final_count is the length of the returned list, the returned
\* invalid count is the summary's 'invalid', total_input is the length of
\* the input; and the call leaves the input list and its records as they were
C30_ValidateAndFilterFrame ==
    /\ [](Returned =>
            /\ IsSubsequence(valid_transactions, transactions)
            /\ filter_summary.final_count = Len(valid_transactions)
            /\ invalid_count = filter_summary.invalid
            /\ filter_summary.total_input = Len(transactions))
    /\ [][transactions' = transactions]_vars

\* of three records the second fails the validation and the amount filter
\* drops the first: the third is returned alone
C30_Witness ==
    /\ Returned
    /\ Len(transactions) = 3
    /\ invalid_count = 1
    /\ filter_summary.filtered_by_amount = 1
    /\ valid_transactions = << transactions[3] >>
    /\ transactions[1] # transactions[3]
    /\ ~FailsValidation(transactions[1])

=============================================================================
